---- MODULE Spec2Model ----
(***************************************************************************)
(* Verification model of the Turing compiler front end (rsprolog / toc):   *)
(* the hand-written scanner, the recursive-descent parsers, the type       *)
(* relations of the type table and the validator's type resolution.        *)
(* Every subsystem has its own specification (SpecScan, SpecParse, ...)    *)
(* over the shared variables; a subsystem that is not running keeps its    *)
(* variables at their idle values.                                         *)
(***************************************************************************)
EXTENDS Integers, Sequences, FiniteSets, TLC

VARIABLES
    \* ---- Scanner (compiler/toc_frontend/src/scanner.rs) ----
    source,         \* Scanner.source, as a sequence of chars
    tokens,         \* Scanner.tokens
    next_indicies,  \* Scanner.next_indicies: items already taken from char_indices()
    chars,          \* Scanner.chars: items already taken from chars()
    current,        \* Scanner.current
    peek,           \* Scanner.peek
    cursor,         \* Scanner.cursor (a Location)
    reporter,       \* Scanner.reporter (a StatusReporter)
    scan_pc,        \* position inside scan_tokens: "loop", "eof", "done", "panic", "idle"
    scan_iters,     \* number of times the body of scan_tokens' loop has run
    \* ---- Concrete syntax tree parser (compiler/toc_parser) ----
    cst,            \* the Parser, its events and the tree built from them
    \* ---- Recursive-descent parser (src/compiler/parser.rs) ----
    parser,         \* the Parser and its position inside parse
    \* ---- Types (src/compiler/types.rs) ----
    types,          \* the TypeTable, the build, and the last call with what it returned
    \* ---- Validator (compiler/toc_frontend/src/validator) ----
    validator,      \* the statements of the unit, its TypeTable, and the Validator's position
    \* ---- Constant evaluation (compiler/toc_analysis/src/const_eval.rs) ----
    const_eval      \* the unit's expression, the InnerCtx, the last call and the messages

scanVars == <<source, tokens, next_indicies, chars, current, peek, cursor,
              reporter, scan_pc, scan_iters>>

\* each subsystem before it is constructed
NotRunning ==
    [cst |-> [tokens |-> <<>>, cursor |-> 0, events |-> <<>>, pc |-> "idle",
              tree |-> [root |-> [kind |-> "None", start |-> 0, end |-> 0],
                        leaves |-> <<>>]],
     parser |-> [tokens |-> <<>>, current |-> 0, blocks |-> 0, ok |-> TRUE,
                 panicked |-> FALSE, expr |-> <<>>, pc |-> "idle", iters |-> 0],
     types |-> [type_table |-> <<>>, debug_assertions |-> FALSE, pc |-> "idle",
                args |-> <<>>, returned |-> <<>>],
     validator |-> [stmts |-> <<>>, scope |-> <<>>, type_table |-> <<>>,
                    debug_assertions |-> FALSE, eager |-> FALSE, pc |-> "idle",
                    visited |-> 0, depth |-> 0, runs |-> 0,
                    returned |-> [kind |-> "Unknown", prim |-> "", size |-> <<>>,
                                  id |-> 0],
                    range |-> [start |-> <<>>, end |-> <<>>, usize_bits |-> 0,
                               size |-> <<>>, returned |-> "", messages |-> <<>>]],
     const_eval |-> [exprs |-> <<>>, is_const |-> FALSE, eval_state |-> <<>>,
                     var_to_expr |-> <<>>, pc |-> "idle", calls |-> <<>>,
                     returned |-> <<>>, messages |-> <<>>,
                     threads |-> <<>>, lock |-> [writer |-> 0, poisoned |-> FALSE]]]

vars == <<scanVars, cst, parser, types, validator, const_eval>>

(***************************************************************************)
(* Characters.  A char is a string naming it; a source is a sequence of    *)
(* chars.  "NUL" is the character '\0', which the scanner also uses for    *)
(* "no more input"; "TAB", "CR", "LF" are '\t', '\r', '\n'.  Two chars      *)
(* outside ASCII stand for multi-byte UTF-8: "U+00E9" is alphabetic,       *)
(* "U+00A7" is not, and both take 2 bytes.                                 *)
(***************************************************************************)
\* the classes of chars the scanner matches on
CharClass ==
    [DecDigits |-> {"0", "1", "2", "3", "4", "5", "6", "7", "8", "9"},
     OctDigits |-> {"0", "1", "2", "3", "4", "5", "6", "7"},
     HexDigits |-> {"0", "1", "2", "3", "4", "5", "6", "7", "8", "9",
                    "a", "b", "c", "d", "e", "f", "A", "B", "C", "D", "E", "F"},
     LowerLetters |-> {"a", "b", "c", "d", "e", "f", "g", "h", "i", "j", "k", "l", "m",
                       "n", "o", "p", "q", "r", "s", "t", "u", "v", "w", "x", "y", "z"},
     UpperLetters |-> {"A", "B", "C", "D", "E", "F", "G", "H", "I", "J", "K", "L", "M",
                       "N", "O", "P", "Q", "R", "S", "T", "U", "V", "W", "X", "Y", "Z"}]

\* char::len_utf8, as seen through str::char_indices and str::len
len_utf8(c) == IF c \in {"U+00E9", "U+00A7"} THEN 2 ELSE 1

RECURSIVE byte_len(_)
\* str::len of a sequence of chars
byte_len(s) == IF s = <<>> THEN 0 ELSE len_utf8(Head(s)) + byte_len(Tail(s))

\* byte offset at which the char with 0-based index k starts
byte_offset(src, k) == byte_len(SubSeq(src, 1, k))

\* the byte offsets that are char boundaries of src
char_boundaries(src) == {byte_offset(src, k) : k \in 0..Len(src)}

\* chr.is_alphabetic() || chr == '_'
is_ident_char(chr) == chr \in CharClass.LowerLetters \cup CharClass.UpperLetters \cup {"U+00E9"} \/ chr = "_"
(***************************************************************************)
(* toc_core::Location                                                      *)
(***************************************************************************)
Location_new == [start |-> 0, end |-> 0, line |-> 1, column |-> 1,
                 width |-> 0, line_span |-> 0]

step(loc) == [loc EXCEPT !.start = loc.end,
                         !.column = loc.column + loc.width,
                         !.line = loc.line + loc.line_span,
                         !.width = 0,
                         !.line_span = 0]

columns(loc, steps) == [loc EXCEPT !.width = @ + steps]

\* the column starting over at 0
lines_from_column_zero(loc, steps) ==
    [loc EXCEPT !.column = 0, !.width = 0, !.line_span = @ + steps]

lines(loc, steps) == [loc EXCEPT !.column = 1, !.width = 0, !.line_span = @ + steps]

current_to(loc, next_end) == [loc EXCEPT !.end = next_end]

current_to_other(loc, other) == [loc EXCEPT !.end = other.end]

\* &source[start..end] is defined only for start <= end <= len on char boundaries
lexeme_ok(loc, src) ==
    /\ loc.start <= loc.end
    /\ loc.start \in char_boundaries(src)
    /\ loc.end \in char_boundaries(src)

get_lexeme(loc, src) ==
    IF lexeme_ok(loc, src)
    THEN LET first == CHOOSE k \in 0..Len(src) : byte_offset(src, k) = loc.start
             last == CHOOSE k \in 0..Len(src) : byte_offset(src, k) = loc.end
         IN SubSeq(src, first + 1, last)
    ELSE <<>>

(***************************************************************************)
(* toc_core::StatusReporter                                                *)
(***************************************************************************)
StatusReporter_new == [has_error |-> FALSE, messages |-> <<>>]

report_error(rep, at, message) ==
    [has_error |-> TRUE,
     messages |-> Append(rep.messages, [kind |-> "Error", at |-> at, message |-> message])]

\* a warning that counts as an error
report_warning_as_error(rep, at, message) ==
    [has_error |-> TRUE,
     messages |-> Append(rep.messages, [kind |-> "Warning", at |-> at, message |-> message])]

report_warning(rep, at, message) ==
    [rep EXCEPT !.messages = Append(@, [kind |-> "Warning", at |-> at, message |-> message])]

has_error(rep) == rep.has_error

(***************************************************************************)
(* Scanner.  The operators below take and return a record S holding the    *)
(* scanner's fields; `panicked` records that a slice, assert!, expect or   *)
(* unwrap of the code failed on the way.                                   *)
(***************************************************************************)
is_at_end(S) == S.cursor.end >= byte_len(S.source)

\* next_char with the cursor left where it is once char_indices() is exhausted
next_char_stuck(S) ==
    LET more_chars == S.chars < Len(S.source)
        more_indicies == S.next_indicies < Len(S.source)
        lexeme_end == IF more_indicies
                      THEN byte_offset(S.source, S.next_indicies)
                      ELSE S.cursor.end
    IN [S EXCEPT !.current = S.peek,
                 !.peek = IF more_chars THEN S.source[S.chars + 1] ELSE "NUL",
                 !.chars = IF more_chars THEN @ + 1 ELSE @,
                 !.next_indicies = IF more_indicies THEN @ + 1 ELSE @,
                 !.cursor = current_to(@, lexeme_end)]

next_char(S) ==
    LET more_chars == S.chars < Len(S.source)
        more_indicies == S.next_indicies < Len(S.source)
        lexeme_end == IF more_indicies
                      THEN byte_offset(S.source, S.next_indicies)
                      ELSE byte_len(S.source)
    IN [S EXCEPT !.current = S.peek,
                 !.peek = IF more_chars THEN S.source[S.chars + 1] ELSE "NUL",
                 !.chars = IF more_chars THEN @ + 1 ELSE @,
                 !.next_indicies = IF more_indicies THEN @ + 1 ELSE @,
                 !.cursor = current_to(@, lexeme_end)]

match_next(S, expected) ==
    IF ~is_at_end(S) /\ S.peek = expected
    THEN [S |-> next_char(S), matched |-> TRUE]
    ELSE [S |-> S, matched |-> FALSE]

error_at_dropped(S, at, message) == S

error_at(S, at, message) == [S EXCEPT !.reporter = report_error(@, at, message)]

panic(S) == [S EXCEPT !.panicked = TRUE]

\* cursor.get_lexeme(source), panicking like the slice does
cursor_lexeme(S) == get_lexeme(S.cursor, S.source)

\* a Token: `value` is the payload of NatLiteral / RealLiteral, `text` the
\* payload of StringLiteral / CharLiteral
Token(token_type, value, location) ==
    [token_type |-> token_type, value |-> value, text |-> <<>>, location |-> location]

make_token(S, token_type, value, steps) ==
    [S |-> [S EXCEPT !.cursor = columns(@, steps)],
     token |-> Token(token_type, value, columns(S.cursor, steps))]

make_or_default(S, expect, does_match, no_match) ==
    LET made(m) == IF m.matched
                   THEN make_token(m.S, does_match, 0, 2)
                   ELSE make_token(m.S, no_match, 0, 1)
    IN made(match_next(S, expect))

RECURSIVE skip_line_comment(_)
skip_line_comment(S) ==
    IF S.peek # "LF" /\ ~is_at_end(S)
    THEN skip_line_comment(next_char(S))
    ELSE S

\* UnicodeSegmentation::graphemes(s, true).count(); no char of the model's
\* alphabets combines with its neighbour, so every char is one grapheme
graphemes_count(s) == Len(s)

skip_block_comment(S) ==
    LET RECURSIVE skip_block_comment_loop(_, _)
        skip_block_comment_loop(T, depth) ==
            IF depth > 0
            THEN LET body(S1) ==
                      CASE S1.current = "NUL" ->
                           [S |-> error_at(S1, S1.cursor,
                                    "Block comment (starting here) ends at the end of the file"),
                            returned |-> TRUE]
                      [] S1.current = "*" ->
                           IF S1.peek = "/"
                           THEN skip_block_comment_loop(next_char(S1), depth - 1)
                           ELSE skip_block_comment_loop(S1, depth)
                      [] S1.current = "/" ->
                           IF S1.peek = "*"
                           THEN skip_block_comment_loop(next_char(S1), depth + 1)
                           ELSE skip_block_comment_loop(S1, depth)
                      [] S1.current = "LF" ->
                           skip_block_comment_loop(
                               [S1 EXCEPT !.cursor = step(lines(@, 1))], depth)
                      [] OTHER -> skip_block_comment_loop(S1, depth)
                 IN body(next_char(T))
            ELSE [S |-> T, returned |-> FALSE]
        remaining(S1) ==
            [S1 EXCEPT !.cursor = columns(@, graphemes_count(cursor_lexeme(S1)))]
        ended(r) ==
            IF r.returned
            THEN r.S
            ELSE remaining(IF lexeme_ok(r.S.cursor, r.S.source) THEN r.S ELSE panic(r.S))
    IN ended(skip_block_comment_loop(S, 1))

RECURSIVE skip_whitespace(_)
\* returns the scanner positioned on the first non-whitespace char (S.current)
skip_whitespace(S) ==
    LET stepped(T) == [T EXCEPT !.cursor = step(@)]
        comment(m) == IF m.matched
                      THEN skip_whitespace(stepped(skip_block_comment(m.S)))
                      ELSE m.S
        body(S1) ==
         CASE S1.current = " " ->
              skip_whitespace(stepped([S1 EXCEPT !.cursor = columns(@, 1)]))
         [] S1.current = "TAB" ->
              skip_whitespace(stepped([S1 EXCEPT !.cursor = columns(@, 4)]))
         [] S1.current = "CR" ->
              skip_whitespace(stepped(S1))
         [] S1.current = "LF" ->
              skip_whitespace(stepped([S1 EXCEPT !.cursor = lines(@, 1)]))
         [] S1.current = "%" ->
              skip_whitespace(stepped(skip_line_comment(S1)))
         [] S1.current = "/" -> comment(match_next(S1, "*"))
         [] OTHER -> S1
    IN body(next_char(S))

make_ident(S) ==
    LET KeywordTable ==
            [ addressint |-> "Addressint", all |-> "All", and |-> "And",
              array |-> "Array", asm |-> "Asm", assert |-> "Assert",
              begin |-> "Begin", bind |-> "Bind", bits |-> "Bits",
              body |-> "Body", boolean |-> "Boolean", break |-> "Break",
              by |-> "By", case |-> "Case", char |-> "Char",
              cheat |-> "Cheat", checked |-> "Checked", class |-> "Class",
              close |-> "Close", collection |-> "Collection", condition |-> "Condition",
              const |-> "Const", decreasing |-> "Decreasing", def |-> "Def",
              deferred |-> "Deferred", div |-> "Div", elif |-> "Elif",
              else |-> "Else", elseif |-> "Elseif", elsif |-> "Elsif",
              end |-> "End", endcase |-> "EndCase", endfor |-> "EndFor",
              endif |-> "EndIf", endloop |-> "EndLoop", enum |-> "Enum",
              exit |-> "Exit", export |-> "Export", external |-> "External",
              false |-> "False", fcn |-> "Function", flexible |-> "Flexible",
              for |-> "For", fork |-> "Fork", forward |-> "Forward",
              free |-> "Free", function |-> "Function", get |-> "Get",
              handler |-> "Handler", if |-> "If", implement |-> "Implement",
              import |-> "Import", in |-> "In", include |-> "Include",
              inherit |-> "Inherit", init |-> "Init", int |-> "Int",
              int1 |-> "Int1", int2 |-> "Int2", int4 |-> "Int4",
              invariant |-> "Invariant", label |-> "Label", loop |-> "Loop",
              mod |-> "Mod", module |-> "Module", monitor |-> "Monitor",
              nat |-> "Nat", nat1 |-> "Nat1", nat2 |-> "Nat2",
              nat4 |-> "Nat4", new |-> "New", nil |-> "Nil",
              not |-> "Not", objectclass |-> "ObjectClass", of |-> "Of",
              opaque |-> "Opaque", open |-> "Open", or |-> "Or",
              packed |-> "Packed", pause |-> "Pause", pervasive |-> "Pervasive",
              pointer |-> "Pointer", post |-> "Post", pre |-> "Pre",
              priority |-> "Priority", proc |-> "Procedure", procedure |-> "Procedure",
              process |-> "Process", put |-> "Put", quit |-> "Quit",
              read |-> "Read", real |-> "Real", real4 |-> "Real4",
              real8 |-> "Real8", record |-> "Record", register |-> "Register",
              rem |-> "Rem", result |-> "Result_", return |-> "Return",
              seek |-> "Seek", self |-> "Self_", set |-> "Set",
              shl |-> "Shl", shr |-> "Shr", signal |-> "Signal",
              skip |-> "Skip", string |-> "String_", tag |-> "Tag",
              tell |-> "Tell", then |-> "Then", timeout |-> "Timeout",
              to |-> "To", true |-> "True", type |-> "Type",
              unchecked |-> "Unchecked", union |-> "Union", unqualified |-> "Unqualified",
              var |-> "Var", wait |-> "Wait", when |-> "When",
              write |-> "Write", xor |-> "Xor" ]
        RECURSIVE to_str(_)
        \* the text of a sequence of chars, as one string
        to_str(s) == IF s = <<>> THEN "" ELSE Head(s) \o to_str(Tail(s))
        RECURSIVE eat(_)
        eat(T) == IF is_ident_char(T.peek) \/ T.peek \in CharClass.DecDigits THEN eat(next_char(T)) ELSE T
        token_type(text) == IF text \in DOMAIN KeywordTable
                            THEN KeywordTable[text]
                            ELSE "Identifier"
        ident(S2, ident_slice) ==
            make_token(S2, token_type(to_str(ident_slice)), 0, graphemes_count(ident_slice))
        sliced(S1) ==
            ident(IF lexeme_ok(S1.cursor, S1.source) THEN S1 ELSE panic(S1),
                  cursor_lexeme(S1))
    IN sliced(eat(S))

(***************************************************************************)
(* Integer literals.  u64 is modelled with NatBits bits: TLC's integers    *)
(* cannot hold 2^64, and the scanner only compares against the maximum.    *)
(***************************************************************************)
NatBits == 8
U64_MAX == 2^NatBits - 1

\* char::to_digit(36)
digit_val(c) ==
    CASE c \in CharClass.DecDigits ->
           CHOOSE d \in 0..9 : c = <<"0","1","2","3","4","5","6","7","8","9">>[d + 1]
      [] c \in CharClass.LowerLetters \cup CharClass.UpperLetters ->
           10 + CHOOSE d \in 0..25 :
                   \/ c = <<"a","b","c","d","e","f","g","h","i","j","k","l","m",
                            "n","o","p","q","r","s","t","u","v","w","x","y","z">>[d + 1]
                   \/ c = <<"A","B","C","D","E","F","G","H","I","J","K","L","M",
                            "N","O","P","Q","R","S","T","U","V","W","X","Y","Z">>[d + 1]
      [] OTHER -> 36

RECURSIVE from_str_radix(_, _, _, _)
\* {integer}::from_str_radix over an unsigned type with maximum `max`:
\* digits are folded left to right, the first failure wins
from_str_radix(digits, base, acc, max) ==
    IF digits = <<>>
    THEN [ok |-> TRUE, num |-> acc, err |-> "None"]
    ELSE LET d == digit_val(Head(digits))
         IN IF d >= base
            THEN [ok |-> FALSE, num |-> 0, err |-> "InvalidDigit"]
            ELSE IF acc * base + d > max
                 THEN [ok |-> FALSE, num |-> 0, err |-> "Overflow"]
                 ELSE from_str_radix(Tail(digits), base, acc * base + d, max)

try_parse_int_wide(digits, base) ==
    IF digits = <<>>
    THEN [ok |-> FALSE, num |-> 0, err |-> "Other"]
    ELSE from_str_radix(digits, base, 0, U64_MAX * U64_MAX)

try_parse_int(digits, base) ==
    IF digits = <<>>
    THEN [ok |-> FALSE, num |-> 0, err |-> "Other"]
    ELSE from_str_radix(digits, base, 0, U64_MAX)

RECURSIVE eat_while(_, _)
\* while set contains self.peek { self.next_char(); }
eat_while(S, set) == IF S.peek \in set THEN eat_while(next_char(S), set) ELSE S

make_number_basic(S, numerals_loc) ==
    LET numerals_len == byte_len(get_lexeme(numerals_loc, S.source))
        msg(err) == CASE err = "Overflow" -> "Integer literal is too large"
                      [] err = "InvalidDigit" -> "Invalid digit found for a base 10 number"
                      [] OTHER -> "Failed to parse integer literal"
        made(S1, parsed) ==
            IF parsed.ok
            THEN make_token(S1, "NatLiteral", parsed.num, numerals_len)
            ELSE make_token(error_at(S1, S1.cursor, msg(parsed.err)),
                            "NatLiteral", 0, numerals_len)
    IN made(IF lexeme_ok(numerals_loc, S.source) THEN S ELSE panic(S),
            try_parse_int(get_lexeme(numerals_loc, S.source), 10))

make_number_radix(S, base_loc) ==
    LET to_ascii_lowercase(s) ==
            [i \in 1..Len(s) |->
                IF s[i] \in CharClass.UpperLetters
                THEN <<"a","b","c","d","e","f","g","h","i","j","k","l","m",
                       "n","o","p","q","r","s","t","u","v","w","x","y","z">>[digit_val(s[i]) - 9]
                ELSE s[i]]
        base_numerals == get_lexeme(base_loc, S.source)
        base_msg(base_parse) ==
            CASE base_parse.ok ->
                   "Base for integer literal is not between the range of 2 - 36"
              [] base_parse.err = "Overflow" ->
                   "Base for integer literal is not between the range of 2 - 36"
              [] base_parse.err = "InvalidDigit" ->
                   "Invalid digit found in the base specifier"
              [] OTHER -> "Failed to parse base for integer literal"
        radix_msg(err) ==
            CASE err = "Overflow" -> "Integer literal is too large"
              [] err = "InvalidDigit" ->
                   "Digit in integer literal is outside of the specified base's allowed digits"
              [] OTHER -> "Failed to parse base for integer literal"
        zero_token(T) == make_token(T, "NatLiteral", 0, byte_len(base_numerals))
        digits(S2, parsed) ==
            IF parsed.ok
            THEN make_token(S2, "NatLiteral", parsed.num, byte_len(cursor_lexeme(S2)))
            ELSE zero_token(error_at(S2, S2.cursor, radix_msg(parsed.err)))
        based(S2, radix_numerals, base_parse) ==
            IF ~(base_parse.ok /\ ~(base_parse.num < 2 \/ base_parse.num > 36))
            THEN zero_token(error_at(S2, S2.cursor, base_msg(base_parse)))
            ELSE IF radix_numerals = <<>>
                 THEN zero_token(error_at(S2, S2.cursor,
                                          "Missing digits for integer literal"))
                 ELSE digits(S2, try_parse_int(radix_numerals, base_parse.num))
        located(S1, radix_locate) ==
            based(IF lexeme_ok(radix_locate, S1.source) THEN S1 ELSE panic(S1),
                  to_ascii_lowercase(get_lexeme(radix_locate, S1.source)),
                  try_parse_int(base_numerals, 10))
        eaten(S0, S1) == located(S1, current_to_other(step(S0.cursor), S1.cursor))
        checked(S0) ==
            eaten(S0, eat_while(S0, CharClass.LowerLetters \cup CharClass.UpperLetters \cup CharClass.DecDigits))
    IN checked(IF lexeme_ok(base_loc, S.source) THEN S ELSE panic(S))

(***************************************************************************)
(* Real literals.  strtod::strtod is an external crate: of its result the  *)
(* scanner only looks at is_infinite / is_nan / None.  The text handed to  *)
(* it always starts with a digit or with '.' and a digit, so it is Some    *)
(* and never NaN; it is infinite when the decimal exponent is beyond the   *)
(* f64 range.  A RealLiteral token's value is 1 for "the parsed number"    *)
(* and 0 for the 0f64 the scanner substitutes after an error.              *)
(***************************************************************************)

make_number_real(S, numerals_loc) ==
    LET F64_MAX_10_EXP == 308
        exponent_of(digits) ==
            LET marks == {i \in 1..Len(digits) : digits[i] \in {"e", "E"}}
            IN IF marks = {}
               THEN [neg |-> FALSE, digits |-> <<>>]
               ELSE LET m == CHOOSE i \in marks : TRUE
                        rest == SubSeq(digits, m + 1, Len(digits))
                        signed == rest # <<>> /\ Head(rest) \in {"+", "-"}
                    IN [neg |-> rest # <<>> /\ Head(rest) = "-",
                        digits |-> IF signed THEN Tail(rest) ELSE rest]
        strtod_is_infinite(digits) ==
            LET e == exponent_of(digits)
                mantissa == {i \in 1..Len(digits) :
                                /\ digits[i] \in CharClass.DecDigits \ {"0"}
                                /\ \A j \in 1..i : digits[j] \notin {"e", "E"}}
                v == from_str_radix(e.digits, 10, 0, F64_MAX_10_EXP)
            IN /\ ~e.neg
               /\ mantissa # {}
               /\ e.digits # <<>>
               /\ ~v.ok
        made(S5, digits, bad_exponent) ==
            CASE strtod_is_infinite(digits) ->
                   make_token(error_at(S5, S5.cursor, "Real literal is too large"),
                              "RealLiteral", 0, 0)
              [] bad_exponent ->
                   make_token(error_at(S5, S5.cursor, "Invalid real literal"),
                              "RealLiteral", 0, 0)
              [] OTHER -> make_token(S5, "RealLiteral", 1, 0)
        sliced(S4, digits, bad_exponent) ==
            made([S4 EXCEPT !.cursor = columns(@, byte_len(digits))], digits, bad_exponent)
        spanned(S3, numerals, bad_exponent) ==
            sliced(IF lexeme_ok(numerals, S3.source) THEN S3 ELSE panic(S3),
                   get_lexeme(numerals, S3.source), bad_exponent)
        exponent(S2, has_exp, found_exponent_digits) ==
            spanned(IF has_exp THEN eat_while(S2, CharClass.DecDigits) ELSE S2,
                    current_to_other(numerals_loc,
                        (IF has_exp THEN eat_while(S2, CharClass.DecDigits) ELSE S2).cursor),
                    has_exp /\ ~found_exponent_digits)
        signed(S2, has_exp) == exponent(S2, has_exp, has_exp /\ S2.peek \in CharClass.DecDigits)
        fraction(S1) ==
            signed(IF S1.current \in {"e", "E"} /\ S1.peek \in {"-", "+"}
                   THEN next_char(S1)
                   ELSE S1,
                   S1.current \in {"e", "E"})
        dot(T) == IF T.peek \in {"e", "E"} THEN next_char(T) ELSE T
    IN fraction(IF S.current = "." THEN dot(eat_while(S, CharClass.DecDigits)) ELSE S)

make_number(S) ==
    LET rest(S1) ==
            CASE S1.peek \in {".", "e", "E"} -> make_number_real(next_char(S1), S1.cursor)
              [] S1.peek = "#" -> make_number_radix(next_char(S1), S1.cursor)
              [] OTHER -> make_number_basic(S1, S1.cursor)
    IN rest(IF S.current \in CharClass.DecDigits THEN eat_while(S, CharClass.DecDigits) ELSE S)

(***************************************************************************)
(* Character and string literals.  literal_text is a sequence of chars; a  *)
(* char produced by an escape is named by what the code pushes.            *)
(***************************************************************************)

\* the char with the given code point
char_from(n) == "chr:" \o ToString(n)

\* eat at most `count` more chars of `set`
RECURSIVE eat_up_to(_, _, _, _)
eat_up_to(S, loc, set, count) ==
    IF count = 0 \/ S.peek \notin set
    THEN [S |-> S, loc |-> loc]
    ELSE eat_up_to(next_char(S), columns(loc, 1), set, count - 1)

report_bad_escape_forward(S, from, message) ==
    LET selected == current_to_other(step(from), S.cursor)
        bad_escape == [selected EXCEPT !.start = @ + 1, !.column = @ + 1, !.width = 2]
    IN IF selected.start = 0 \/ ~lexeme_ok(bad_escape, S.source)
       THEN panic(S)
       ELSE error_at(S, bad_escape, message)

\* the location `bad_escape` of an invalid escape, and the error reported on it
report_bad_escape(S, from, message) ==
    LET selected == current_to_other(step(from), S.cursor)
        bad_escape == [selected EXCEPT !.start = @ - 1, !.column = @ + 1, !.width = 2]
    IN IF selected.start = 0 \/ ~lexeme_ok(bad_escape, S.source)
       THEN panic(S)
       ELSE error_at(S, bad_escape, message)

scan_slash_escape(S, literal_text) ==
    LET REPLACEMENT_CHARACTER == "U+FFFD"
        CHAR_MAX == 1114111            \* 0x10FFFF
        SURROGATE_FIRST == 55296       \* 0xD800
        SURROGATE_LAST == 57343        \* 0xDFFF
        U16_MAX == 65535
        U8_MAX == 255
        escaped_at == S.cursor
        push(T, c) == [S |-> T, text |-> Append(literal_text, c)]
        octal(T, octal_cursor) ==
            LET lexeme == get_lexeme(octal_cursor, S.source)
                to_chr == from_str_radix(lexeme, 8, 0, U16_MAX)
            IN IF ~lexeme_ok(octal_cursor, S.source) \/ ~to_chr.ok \/ lexeme = <<>>
               THEN push(panic(T), REPLACEMENT_CHARACTER)
               ELSE IF to_chr.num >= 256
                    THEN push(error_at(T, octal_cursor,
                                "Octal character value is larger than 255 (octal 377)"),
                              REPLACEMENT_CHARACTER)
                    ELSE push(T, char_from(to_chr.num))
        hex(T, hex_cursor) ==
            LET lexeme == get_lexeme(hex_cursor, S.source)
                to_chr == from_str_radix(lexeme, 16, 0, U8_MAX)
            IN IF ~lexeme_ok(hex_cursor, S.source) \/ ~to_chr.ok \/ lexeme = <<>>
               THEN push(panic(T), REPLACEMENT_CHARACTER)
               ELSE push(T, char_from(to_chr.num))
        \* u32 holds any 8 hex digits, so the expect cannot fail; the fold
        \* is capped at 0x10FFFF, beyond which the code only reports
        unicode(T, hex_cursor) ==
            LET lexeme == get_lexeme(hex_cursor, S.source)
                to_chr == from_str_radix(lexeme, 16, 0, CHAR_MAX)
            IN IF ~lexeme_ok(hex_cursor, S.source) \/ lexeme = <<>>
               THEN push(panic(T), REPLACEMENT_CHARACTER)
               ELSE IF ~to_chr.ok
                    THEN push(error_at(T, hex_cursor,
                                "Unicode codepoint value is greater than U+10FFFF"),
                              REPLACEMENT_CHARACTER)
                    ELSE IF to_chr.num >= SURROGATE_FIRST /\ to_chr.num <= SURROGATE_LAST
                         THEN push(error_at(T, hex_cursor,
                                     "Surrogate codepoints (paired or unpaired) are not allowed in strings"),
                                   REPLACEMENT_CHARACTER)
                         ELSE push(T, char_from(to_chr.num))
        octal_eaten(e) == octal(e.S, current_to_other(e.loc, e.S.cursor))
        hex_eaten(e) == hex(e.S, current_to_other(e.loc, e.S.cursor))
        unicode_eaten(e) == unicode(e.S, current_to_other(e.loc, e.S.cursor))
        body(S1, escaped) ==
            CASE escaped = "'" -> push(S1, "'")
              [] escaped = "\"" -> push(S1, "\"")
              [] escaped = "\\" -> push(S1, "\\")
              [] escaped \in {"b", "B"} -> push(S1, char_from(8))
              [] escaped \in {"d", "D"} -> push(S1, char_from(127))
              [] escaped \in {"e", "E"} -> push(S1, char_from(27))
              [] escaped \in {"f", "F"} -> push(S1, char_from(12))
              [] escaped \in {"r", "R"} -> push(S1, "CR")
              [] escaped \in {"n", "N"} -> push(S1, "LF")
              [] escaped \in {"t", "T"} -> push(S1, "TAB")
              [] escaped = "^" -> push(S1, "^")
              [] escaped \in CharClass.OctDigits ->
                   octal_eaten(eat_up_to(S1, step(escaped_at), CharClass.OctDigits, 2))
              [] escaped = "x" /\ S1.peek \in CharClass.HexDigits ->
                   hex_eaten(eat_up_to(S1, step(S1.cursor), CharClass.HexDigits, 2))
              [] escaped \in {"u", "U"} /\ S1.peek \in CharClass.HexDigits ->
                   unicode_eaten(eat_up_to(S1, step(S1.cursor), CharClass.HexDigits, 8))
              [] OTHER ->
                   push(report_bad_escape(S1, escaped_at,
                           IF escaped \in {"x", "u", "U"}
                           THEN "Invalid escape sequence character (missing hexadecimal digits)"
                           ELSE "Invalid escape sequence character"),
                        escaped)
        escape(S1) == body(S1, S1.current)
    IN escape(next_char(S))

scan_caret_escape(S, literal_text) ==
    LET \* the chars '@'..='_' and 'a'..='z'
        CaretChars == {"@", "[", "\\", "]", "^", "_"} \cup CharClass.UpperLetters \cup CharClass.LowerLetters
        escaped == S.peek
        consume(T, c) == [S |-> next_char(T), text |-> Append(literal_text, c)]
    IN CASE escaped \in CaretChars ->
              \* (escaped.to_ascii_uppercase() as u8) & 0x1F
              consume(S, "^" \o escaped)
         [] escaped = "?" -> consume(S, char_from(127))
         [] OTHER ->
              consume(report_bad_escape(next_char(S), S.cursor,
                         "Unknown caret notation sequence"),
                      escaped)

RECURSIVE extract_char_sequence(_, _, _)
extract_char_sequence(S, ending_delimiter, literal_text) ==
    LET resume(r) == extract_char_sequence(r.S, ending_delimiter, r.text)
        body(S1) ==
            CASE S1.current \in {"^", "\\"} /\ S1.peek \in {"CR", "LF", "NUL"} ->
                   [S |-> S1, text |-> literal_text]
              [] S1.current = "\\" -> resume(scan_slash_escape(S1, literal_text))
              [] S1.current = "^" -> resume(scan_caret_escape(S1, literal_text))
              [] OTHER ->
                   extract_char_sequence(S1, ending_delimiter,
                                         Append(literal_text, S1.current))
    IN IF S.peek # ending_delimiter /\ S.peek \notin {"CR", "LF", "NUL"}
       THEN body(next_char(S))
       ELSE [S |-> S, text |-> literal_text]

make_str_literal(S, is_str_literal, text, width) ==
    LET with_text(r) == [r EXCEPT !.token.text = text]
    IN with_text(IF is_str_literal
                 THEN make_token(S, "StringLiteral", 0, width)
                 ELSE make_token(S, "CharLiteral", 0, width))

make_char_sequence(S, is_str_literal) ==
    LET ending_delimiter == IF is_str_literal THEN "\"" ELSE "'"
        ended(S2, text, part_width) ==
            CASE S2.peek \in {"CR", "LF"} ->
                   make_str_literal(
                       error_at(S2, S2.cursor, "String literal ends at the end of the line"),
                       is_str_literal, text, 0)
              [] S2.peek = "NUL" ->
                   make_str_literal(
                       error_at(S2, S2.cursor, "String literal ends at the end of the file"),
                       is_str_literal, text, part_width)
              [] OTHER ->
                   \* assert!((self.peek == '\'' || self.peek == '"'))
                   make_str_literal(
                       next_char(IF S2.peek \in {"'", "\""} THEN S2 ELSE panic(S2)),
                       is_str_literal, text, 1)
        measured(S1, text, part_width) ==
            ended([S1 EXCEPT !.cursor = columns(@, part_width)], text, part_width)
        extracted(r) ==
            measured(IF lexeme_ok(r.S.cursor, r.S.source) THEN r.S ELSE panic(r.S),
                     r.text, graphemes_count(cursor_lexeme(r.S)))
    IN extracted(extract_char_sequence(S, ending_delimiter, <<>>))

(***************************************************************************)
(* scan_token, stitch_token and the loop of scan_tokens                    *)
(***************************************************************************)
scan_token(S) ==
    LET token(S1, chr) ==
       CASE chr = "NUL" -> make_token(S1, "Eof", 0, 0)
         [] chr = "(" -> make_token(S1, "LeftParen", 0, 1)
         [] chr = ")" -> make_token(S1, "RightParen", 0, 1)
         [] chr = "@" -> make_token(S1, "At", 0, 1)
         [] chr = "^" -> make_token(S1, "Caret", 0, 1)
         [] chr = "," -> make_token(S1, "Comma", 0, 1)
         [] chr = "#" -> make_token(S1, "Pound", 0, 1)
         [] chr = "+" -> make_token(S1, "Plus", 0, 1)
         [] chr = ";" -> make_token(S1, "Semicolon", 0, 1)
         [] chr = "~" -> make_token(S1, "Tilde", 0, 1)
         [] chr = "&" -> make_token(S1, "And", 0, 1)
         [] chr = "|" -> make_token(S1, "Or", 0, 1)
         [] chr = "/" -> make_token(S1, "Slash", 0, 1)
         [] chr = "-" -> make_or_default(S1, ">", "Arrow", "Minus")
         [] chr = "=" -> make_or_default(S1, ">", "Imply", "Equ")
         [] chr = ":" -> make_or_default(S1, "=", "Assign", "Colon")
         [] chr = ">" -> make_or_default(S1, "=", "GreaterEqu", "Greater")
         [] chr = "<" -> make_or_default(S1, "=", "LessEqu", "Less")
         [] chr = "." /\ S1.peek \in CharClass.DecDigits -> make_number_real(S1, S1.cursor)
         [] chr = "." /\ S1.peek \notin CharClass.DecDigits ->
              make_or_default(S1, ".", "Range", "Dot")
         [] chr = "*" -> make_or_default(S1, "*", "Exp", "Star")
         [] chr = "\"" -> make_char_sequence(S1, TRUE)
         [] chr = "'" -> make_char_sequence(S1, FALSE)
         [] chr \in CharClass.DecDigits -> make_number(S1)
         [] OTHER ->
              IF is_ident_char(chr)
              THEN make_ident(S1)
              ELSE make_token(error_at(S1, S1.cursor, "Unrecognized character"),
                              "Error", 0, 1)
        skipped(S1) == token(S1, S1.current)
    IN skipped(skip_whitespace(S))

stitch_token_not_only(toks) ==
    LET n == Len(toks)
        last_type == IF n >= 1 THEN toks[n].token_type ELSE "Eof"
        prev_type == IF n >= 2 THEN toks[n - 1].token_type ELSE "Eof"
        stitched(kind) ==
            [toks EXCEPT ![n - 1] =
                [@ EXCEPT !.token_type = kind,
                          !.location = current_to_other(@, toks[n].location)]]
    IN CASE last_type = "In" /\ prev_type = "Not" -> SubSeq(stitched("NotIn"), 1, n - 1)
         [] last_type = "Equ" /\ prev_type = "Not" -> SubSeq(stitched("NotEqu"), 1, n - 1)
         [] OTHER -> toks

\* stitch_token on the token list
stitch_token(toks) ==
    LET n == Len(toks)
        last_type == IF n >= 1 THEN toks[n].token_type ELSE "Eof"
        prev_type == IF n >= 2 THEN toks[n - 1].token_type ELSE "Eof"
        stitched(kind) ==
            [toks EXCEPT ![n - 1] =
                [@ EXCEPT !.token_type = kind,
                          !.location = current_to_other(@, toks[n].location)]]
    IN CASE last_type = "In" /\ prev_type \in {"Not", "Tilde"} ->
              SubSeq(stitched("NotIn"), 1, n - 1)
         [] last_type = "Equ" /\ prev_type \in {"Not", "Tilde"} ->
              SubSeq(stitched("NotEqu"), 1, n - 1)
         [] OTHER -> toks

\* the scanner's fields as one record
ScannerState ==
    [source |-> source, next_indicies |-> next_indicies, chars |-> chars,
     current |-> current, peek |-> peek, cursor |-> cursor, reporter |-> reporter,
     panicked |-> FALSE]

\* Scanner::new(source)
Scanner_new(src) ==
    /\ source = src
    /\ tokens = <<>>
    /\ next_indicies = (IF Len(src) > 0 THEN 1 ELSE 0)
    /\ chars = (IF Len(src) > 0 THEN 1 ELSE 0)
    /\ current = "NUL"
    /\ peek = (IF Len(src) > 0 THEN src[1] ELSE "NUL")
    /\ cursor = Location_new
    /\ reporter = StatusReporter_new
    /\ scan_pc = "loop"
    /\ scan_iters = 0

\* one run of the body of the loop in scan_tokens
scan_tokens_loop ==
    /\ scan_pc = "loop"
    /\ ~is_at_end(ScannerState)
    /\ \E r \in {scan_token([ScannerState EXCEPT !.cursor = step(@)])} :
          IF r.S.panicked
          THEN /\ scan_pc' = "panic"
               /\ UNCHANGED <<source, tokens, next_indicies, chars, current, peek,
                              cursor, reporter, scan_iters, cst, parser, types, validator,
                              const_eval>>
          ELSE /\ tokens' = stitch_token(Append(tokens, r.token))
               /\ next_indicies' = r.S.next_indicies
               /\ chars' = r.S.chars
               /\ current' = r.S.current
               /\ peek' = r.S.peek
               /\ cursor' = r.S.cursor
               /\ reporter' = r.S.reporter
               /\ scan_iters' = scan_iters + 1
               /\ UNCHANGED <<source, scan_pc, cst, parser, types, validator, const_eval>>

\* the rest of scan_tokens, once the loop has ended
scan_tokens_finish ==
    /\ scan_pc = "loop"
    /\ is_at_end(ScannerState)
    /\ IF tokens = <<>> \/ tokens[Len(tokens)].token_type # "Eof"
       THEN \E r \in {make_token([ScannerState EXCEPT !.cursor = step(@)], "Eof", 0, 1)} :
               /\ tokens' = Append(tokens, r.token)
               /\ cursor' = r.S.cursor
       ELSE UNCHANGED <<tokens, cursor>>
    /\ scan_pc' = "done"
    /\ UNCHANGED <<source, next_indicies, chars, current, peek, reporter, scan_iters,
                   cst, parser, types, validator, const_eval>>

(***************************************************************************)
(* SpecScan: scan_tokens over every source of at most MaxSourceLen chars   *)
(* of ScanAlphabet.                                                        *)
(***************************************************************************)
MaxSourceLen == 3

ScanAlphabet == {"NUL", " ", "LF", "%", "/", "*", "a", "1", "#", ".", "e", "\"", "\\",
                 "^", "U+00E9", "U+00A7"}

Sources(alphabet, maxlen) == UNION {[1..n -> alphabet] : n \in 0..maxlen}

\* every subsystem but the running one is as before its construction
IdleExcept(running) ==
    /\ IF running = "scan"
       THEN TRUE
       ELSE /\ source = <<>>
            /\ tokens = <<>>
            /\ next_indicies = 0
            /\ chars = 0
            /\ current = "NUL"
            /\ peek = "NUL"
            /\ cursor = Location_new
            /\ reporter = StatusReporter_new
            /\ scan_pc = "idle"
            /\ scan_iters = 0
    /\ IF running = "cst" THEN TRUE ELSE cst = NotRunning.cst
    /\ IF running = "parser" THEN TRUE ELSE parser = NotRunning.parser
    /\ IF running = "types" THEN TRUE ELSE types = NotRunning.types
    /\ IF running = "validator" THEN TRUE ELSE validator = NotRunning.validator
    /\ IF running = "const_eval" THEN TRUE ELSE const_eval = NotRunning.const_eval

\* the sources: every string of chars of ScanAlphabet, and every text of
\* words that takes more chars to write (operators to stitch, comments between
\* them, based literals, escapes with hex digits)
InitScan ==
    LET ScanWords == {<<"n", "o", "t">>, <<"~">>, <<"i", "n">>, <<"=">>, <<" ">>,
                      <<"%", "LF">>, <<"/", "*", "*", "/">>, <<"9">>, <<"9", "#">>,
                      <<"3", "6", "#">>, <<"z", "z">>, <<"a">>, <<"\"", "\\", "x">>,
                      <<"\"", "\\", "u">>, <<"U+00A7">>, <<"\"">>}
        RECURSIVE Texts(_)
        Texts(n) == IF n = 0 THEN {<<>>}
                    ELSE Texts(n - 1) \cup {text \o word : text \in Texts(n - 1),
                                                          word \in ScanWords}
    IN  /\ \E src \in Sources(ScanAlphabet, MaxSourceLen) \cup Texts(MaxSourceLen) :
               Scanner_new(src)
        /\ IdleExcept("scan")

NextScan == scan_tokens_loop \/ scan_tokens_finish

SpecScan == InitScan /\ [][NextScan]_vars

(***************************************************************************)
(* A StatusReporter used on its own: any sequence of its operations, on    *)
(* the variable `reporter`.                                                *)
(***************************************************************************)
\* messages a reporter holds at a time
MaxMessages == 3

\* what is reported: a location and a text
Reports ==
    {[at |-> at, message |-> message] :
         at \in {[start |-> 0, end |-> 0, line |-> 1, column |-> 1, width |-> 0,
                  line_span |-> 0],
                 [start |-> 1, end |-> 2, line |-> 1, column |-> 2, width |-> 1,
                  line_span |-> 0]},
         message \in {"", "message"}}

StatusReporter_report_error ==
    /\ Len(reporter.messages) < MaxMessages
    /\ \E reporting \in Reports :
          reporter' = report_error(reporter, reporting.at, reporting.message)
    /\ UNCHANGED <<source, tokens, next_indicies, chars, current, peek, cursor,
                   scan_pc, scan_iters, cst, parser, types, validator, const_eval>>

StatusReporter_report_warning ==
    /\ Len(reporter.messages) < MaxMessages
    /\ \E reporting \in Reports :
          reporter' = report_warning(reporter, reporting.at, reporting.message)
    /\ UNCHANGED <<source, tokens, next_indicies, chars, current, peek, cursor,
                   scan_pc, scan_iters, cst, parser, types, validator, const_eval>>

\* std::mem::take(&mut self.messages)
StatusReporter_take_messages ==
    /\ reporter' = [reporter EXCEPT !.messages = <<>>]
    /\ UNCHANGED <<source, tokens, next_indicies, chars, current, peek, cursor,
                   scan_pc, scan_iters, cst, parser, types, validator, const_eval>>

SpecReporter ==
    /\ IdleExcept("reporter")
    /\ [][\/ StatusReporter_report_error
          \/ StatusReporter_report_warning
          \/ StatusReporter_take_messages]_vars

CountEof(toks) == Cardinality({i \in 1..Len(toks) : toks[i].token_type = "Eof"})

\* C1: after scan_tokens returns, the token list holds exactly one Eof
\* token, and it is the last element
C1_ExactlyOneEofLast ==
    scan_pc = "done" =>
        /\ tokens # <<>>
        /\ tokens[Len(tokens)].token_type = "Eof"
        /\ CountEof(tokens) = 1

\* what is left of scan_tokens: the chars not yet scanned, and leaving the loop
ScanVariant == (Len(source) - scan_iters) + (IF scan_pc = "loop" THEN 1 ELSE 0)

\* C2: scan_tokens terminates: every run of the loop body of scan_tokens moves
\* cursor.end forward by at least one char, so the body runs at most once per
\* char of the source; every step of scan_tokens decreases ScanVariant, which
\* is never negative, so the loop is left
C2_ScanProgress ==
    /\ [][scan_iters' # scan_iters =>
            /\ cursor'.end > cursor.end
            /\ cursor'.end \in char_boundaries(source)]_vars
    /\ [](scan_iters <= Len(source))
    /\ [][ScanVariant' < ScanVariant]_vars

C2_Witness ==
    /\ scan_pc = "done"
    /\ Len(source) >= 2
    /\ scan_iters = Len(source)

(***************************************************************************)
(* Concrete syntax tree parser (compiler/toc_parser).  grammar::source is  *)
(* in the sources at hand; the Parser it drives (start, bump, at_end,      *)
(* hidden_eat, Marker::complete), stmt::stmt and the Sink that turns the   *)
(* events into the tree are not, and are modelled from the specification   *)
(* and from the trees expected by grammar/stmt/test.rs.  The input is the  *)
(* sequence of tokens the lexer cuts it into: the input text is their      *)
(* texts, in order.                                                        *)
(***************************************************************************)
is_trivia(kind) == kind \in {"Whitespace", "Comment"}

\* the tokens at or after the parser's cursor that are not trivia
remaining_tokens(P) ==
    {i \in (P.cursor + 1)..Len(P.tokens) : ~is_trivia(P.tokens[i].kind)}

\* Parser::peek: the kind of the next token that is not trivia
peek_kind(P) ==
    IF remaining_tokens(P) = {}
    THEN "None"
    ELSE P.tokens[CHOOSE i \in remaining_tokens(P) :
                      \A j \in remaining_tokens(P) : i <= j].kind

at_end(P) == peek_kind(P) = "None"

at(P, kind) == peek_kind(P) = kind

\* Parser::start: a placeholder event, which the marker points at
start(P) == [P EXCEPT !.events = Append(@, [ev |-> "Placeholder", kind |-> ""])]

\* Parser::bump: skip trivia, take the token, emit AddToken
bump(P) ==
    [P EXCEPT !.cursor = CHOOSE i \in remaining_tokens(P) :
                            \A j \in remaining_tokens(P) : i <= j,
              !.events = Append(@, [ev |-> "AddToken", kind |-> ""])]

hidden_eat(P, kind) == IF at(P, kind) THEN bump(P) ELSE P

\* Marker::complete: the placeholder at `pos` becomes StartNode, FinishNode is emitted
complete(P, pos, kind) ==
    [P EXCEPT !.events = Append([@ EXCEPT ![pos] = [ev |-> "StartNode", kind |-> kind]],
                                [ev |-> "FinishNode", kind |-> ""])]

RECURSIVE bump_n(_, _)
bump_n(P, n) == IF n = 0 THEN P ELSE bump_n(bump(P), n - 1)

\* stmt::stmt, by what it leaves behind: a node of `kind` around n >= 1 tokens, the
\* last `inner` of them in a child node; kind "None" is a token taken on its own
stmt(P, kind, n, inner) ==
    LET marker == Len(P.events) + 1
        child == marker + 1 + (n - inner)
    IN CASE kind = "None" -> bump_n(P, n)
         [] inner = 0 -> complete(bump_n(start(P), n), marker, kind)
         [] OTHER ->
              complete(
                  complete(bump_n(start(bump_n(start(P), n - inner)), inner),
                           child, "Name"),
                  marker, kind)

\* grammar::source up to its loop: p.start(); p.hidden_eat(TokenKind::Unit)
source_begin_unit_first(P) == start(hidden_eat(P, "KwUnit"))

source_begin(P) == hidden_eat(start(P), "KwUnit")

\* the condition of the loop of grammar::source, left after the first statement
source_loop_once(P) == ~at_end(P) /\ \A i \in 2..Len(P.events) : FALSE

\* the condition of the loop of grammar::source
source_loop(P) == ~at_end(P)

(***************************************************************************)
(* The Sink: it replays the events over the tokens, trivia included, into  *)
(* the tree.  B is the tree builder: `leaves` are the tokens added so far  *)
(* with their byte spans, `stack` the open nodes, `nodes` the finished     *)
(* ones.                                                                   *)
(***************************************************************************)
sink_token(B, toks) ==
    LET tok == toks[B.cursor + 1]
    IN [B EXCEPT !.cursor = @ + 1,
                 !.pos = @ + byte_len(tok.text),
                 !.leaves = Append(@, [kind |-> tok.kind, text |-> tok.text,
                                       start |-> B.pos,
                                       end |-> B.pos + byte_len(tok.text)])]

RECURSIVE sink_eat_trivia(_, _)
sink_eat_trivia(B, toks) ==
    IF B.cursor < Len(toks) /\ is_trivia(toks[B.cursor + 1].kind)
    THEN sink_eat_trivia(sink_token(B, toks), toks)
    ELSE B

sink_event(B, event, toks) ==
    CASE event.ev = "StartNode" ->
           [B EXCEPT !.stack = Append(@, [kind |-> event.kind, start |-> B.pos])]
      [] event.ev = "AddToken" -> sink_token(B, toks)
      [] event.ev = "FinishNode" ->
           [B EXCEPT !.stack = SubSeq(@, 1, Len(@) - 1),
                     !.nodes = Append(@, [kind |-> B.stack[Len(B.stack)].kind,
                                          start |-> B.stack[Len(B.stack)].start,
                                          end |-> B.pos])]
      [] OTHER -> B

RECURSIVE sink_finish(_, _, _)
sink_finish(B, events, toks) ==
    IF events = <<>>
    THEN B
    ELSE sink_finish(sink_eat_trivia(sink_event(B, Head(events), toks), toks),
                     Tail(events), toks)

(***************************************************************************)
(* SpecCst: toc_parser::parse on every input of at most MaxCstTokens       *)
(* tokens of CstTokens.                                                    *)
(***************************************************************************)
\* let source = p.start(); p.hidden_eat(TokenKind::Unit);
grammar_source_begin ==
    /\ cst.pc = "start"
    /\ cst' = [source_begin(cst) EXCEPT !.pc = "stmts"]
    /\ UNCHANGED <<scanVars, parser, types, validator, const_eval>>

\* while !p.at_end() { stmt::stmt(p); }
grammar_source_stmt ==
    /\ cst.pc = "stmts"
    /\ source_loop(cst)
    /\ \E kind \in {"None", "Error", "CallStmt"}, n \in 1..Cardinality(remaining_tokens(cst)) :
         \E inner \in 0..n :
            /\ kind = "None" => inner = 0
            /\ cst' = stmt(cst, kind, n, inner)
    /\ UNCHANGED <<scanVars, parser, types, validator, const_eval>>

\* source.complete(p, SyntaxKind::Source), and the sink's finish()
grammar_source_complete ==
    /\ cst.pc = "stmts"
    /\ ~source_loop(cst)
    /\ LET P == complete(cst, 1, "Source")
           Builder_new ==
               [cursor |-> 0, pos |-> 0, leaves |-> <<>>, stack |-> <<>>, nodes |-> <<>>]
           B == sink_finish(Builder_new, P.events, P.tokens)
           \* the tree of a finished builder: its root is the node finished last
           SyntaxTree == [root |-> B.nodes[Len(B.nodes)], leaves |-> B.leaves]
       IN  cst' = [P EXCEPT !.pc = "done", !.tree = SyntaxTree]
    /\ UNCHANGED <<scanVars, parser, types, validator, const_eval>>

MaxCstTokens == 3

CstTokens ==
    { [kind |-> "Whitespace", text |-> <<" ">>],
      [kind |-> "Comment", text |-> <<"%", "c">>],
      [kind |-> "KwUnit", text |-> <<"u", "n", "i", "t">>],
      [kind |-> "KwPervasive", text |-> <<"p", "e", "r", "v", "a", "s", "i", "v", "e">>],
      [kind |-> "Identifier", text |-> <<"U+00E9">>] }

InitCst ==
    /\ \E toks \in Sources(CstTokens, MaxCstTokens) :
          \* Parser::new
          cst = [tokens |-> toks, cursor |-> 0, events |-> <<>>, pc |-> "start",
                 tree |-> NotRunning.cst.tree]
    /\ IdleExcept("cst")

NextCst == grammar_source_begin \/ grammar_source_stmt \/ grammar_source_complete

SpecCst == InitCst /\ [][NextCst]_vars

RECURSIVE concat_text(_)
\* the texts of a sequence of tokens, one after the other
concat_text(toks) ==
    IF toks = <<>> THEN <<>> ELSE Head(toks).text \o concat_text(Tail(toks))

\* the input text
cst_input == concat_text(cst.tokens)

\* C3: the texts of all tokens of the parsed tree, trivia and tokens inside
\* Error nodes included, concatenated in order, are the input
C3_TreeIsLossless ==
    cst.pc = "done" =>
        /\ concat_text(cst.tree.leaves) = cst_input
        /\ \A i \in 1..Len(cst.tree.leaves) :
              /\ cst.tree.leaves[i].start =
                    (IF i = 1 THEN 0 ELSE cst.tree.leaves[i - 1].end)
              /\ cst.tree.leaves[i].end =
                    cst.tree.leaves[i].start + byte_len(cst.tree.leaves[i].text)

\* a tree with trivia at both ends, an Error node and a multi-byte token has been built
C3_Witness ==
    /\ cst.pc = "done"
    /\ Len(cst.tokens) = 3
    /\ is_trivia(cst.tokens[1].kind)
    /\ is_trivia(cst.tokens[3].kind)
    /\ \E i \in 1..Len(cst.events) :
          cst.events[i] = [ev |-> "StartNode", kind |-> "Error"]
    /\ \E i \in 1..Len(cst.tree.leaves) : cst.tree.leaves[i].text = <<"U+00E9">>

\* C4: parsing returns a tree whose root is a Source node over bytes 0..len(input)
C4_RootSpansInput ==
    cst.pc = "done" =>
        cst.tree.root = [kind |-> "Source", start |-> 0, end |-> byte_len(cst_input)]

\* an input that is not well formed (a lone `pervasive` after `unit`, in an Error
\* node) has been parsed
C4_Witness ==
    /\ cst.pc = "done"
    /\ byte_len(cst_input) > Len(cst_input)
    /\ \E i \in 1..Len(cst.tokens) : cst.tokens[i].kind = "KwPervasive"
    /\ cst.tokens[1].kind = "KwUnit"
    /\ \E i \in 1..Len(cst.events) :
          cst.events[i] = [ev |-> "StartNode", kind |-> "Error"]

(***************************************************************************)
(* The recursive-descent parser, src/compiler/parser.rs.                   *)
(* A Parser P is a record: tokens (each a token_type and a literal value), *)
(* current (0-based, as in the code), blocks (the length of Parser.blocks),*)
(* and the outcome of the last call: ok (Ok or Err), panicked, and expr    *)
(* (the Expr of an Ok).  Messages go to the reporter and identifiers to    *)
(* the scopes; neither is read back by the parser, and both are left out.  *)
(***************************************************************************)
parser_current(P) == P.tokens[P.current + 1]

previous(P) == P.tokens[(IF P.current = 0 THEN 0 ELSE P.current - 1) + 1]

parser_is_at_end(P) == parser_current(P).token_type = "Eof"

parser_peek(P) ==
    IF parser_is_at_end(P) THEN P.tokens[Len(P.tokens)] ELSE P.tokens[P.current + 2]

\* the token it returns is previous() of the result
next_token(P) == IF ~parser_is_at_end(P) THEN [P EXCEPT !.current = @ + 1] ELSE P

expects(P, expected_type) ==
    IF parser_current(P).token_type = expected_type
    THEN [next_token(P) EXCEPT !.ok = TRUE]
    ELSE [P EXCEPT !.ok = FALSE]

\* its result is whether the token before the call was optional_type
optional(P, optional_type) ==
    IF parser_current(P).token_type = optional_type THEN next_token(P) ELSE P

\* a panic!, an expect or unwrap that fails, an unimplemented!
parser_panic(P) == [P EXCEPT !.panicked = TRUE, !.ok = FALSE]

Precedence ==
    [NoPrec |-> 0, Imply |-> 1, BitOr |-> 2, BitAnd |-> 3, BitNot |-> 4,
     Comparison |-> 5, Sum |-> 6, Product |-> 7, Unary |-> 8, Exponent |-> 9,
     Conversion |-> 10, Deref |-> 11, Call |-> 12, Follow |-> 13, Primary |-> 14]

up(precedence) ==
    IF precedence \in {Precedence.NoPrec, Precedence.Primary}
    THEN precedence
    ELSE precedence + 1

get_rule(token_type) ==
    LET PrecedenceRule(precedence, prefix_rule, infix_rule) ==
            [precedence |-> precedence, prefix_rule |-> prefix_rule,
             infix_rule |-> infix_rule]
    IN CASE token_type = "LeftParen" ->
              PrecedenceRule(Precedence.Call, "expr_grouping", "expr_call")
         [] token_type = "Imply" ->
              PrecedenceRule(Precedence.Imply, "None", "expr_binary")
         [] token_type = "Or" ->
              PrecedenceRule(Precedence.BitOr, "None", "expr_binary")
         [] token_type = "And" ->
              PrecedenceRule(Precedence.BitAnd, "None", "expr_binary")
         [] token_type \in {"Tilde", "Not"} ->
              PrecedenceRule(Precedence.BitNot, "expr_unary_rule", "None")
         [] token_type \in {"Less", "Greater", "Equ", "LessEqu", "GreaterEqu",
                            "NotEq", "In", "NotIn"} ->
              PrecedenceRule(Precedence.Comparison, "None", "expr_binary")
         [] token_type \in {"Plus", "Minus"} ->
              PrecedenceRule(Precedence.Sum, "expr_unary", "expr_binary")
         [] token_type = "Xor" ->
              PrecedenceRule(Precedence.Sum, "None", "expr_binary")
         [] token_type \in {"Star", "Slash", "Div", "Mod", "Rem", "Shl", "Shr"} ->
              PrecedenceRule(Precedence.Product, "None", "expr_binary")
         [] token_type = "Pound" ->
              PrecedenceRule(Precedence.Conversion, "expr_unary_rule", "None")
         [] token_type = "Caret" ->
              PrecedenceRule(Precedence.Follow, "expr_unary_rule", "None")
         [] token_type = "Deref" ->
              PrecedenceRule(Precedence.Deref, "None", "expr_deref")
         [] token_type = "Exp" ->
              PrecedenceRule(Precedence.Exponent, "None", "expr_binary")
         [] token_type = "Dot" ->
              PrecedenceRule(Precedence.Call, "None", "expr_dot")
         [] token_type \in {"NatLiteral", "RealLiteral", "CharLiteral",
                            "StringLiteral", "True", "False", "Nil"} ->
              PrecedenceRule(Precedence.Primary, "expr_primary", "None")
         [] token_type = "Identifier" ->
              PrecedenceRule(Precedence.Primary, "expr_ident", "None")
         [] OTHER -> PrecedenceRule(Precedence.NoPrec, "None", "None")

is_compound_assignment(P) ==
    /\ parser_peek(P).token_type = "Equ"
    /\ parser_current(P).token_type \in
           {"Plus", "Minus", "Star", "Div", "Slash", "Rem", "Mod", "Exp", "And",
            "Or", "Xor", "Shl", "Shr", "Imply"}

is_simple_assignment(P) == parser_current(P).token_type \in {"Assign", "Equ"}

\* ---- Expr parsing: an Ok result carries the Expr in P.expr ----
\* The functions of the parser call one another recursively; the calls that
\* close a cycle (to expr_precedence, parse_type, type_function and decl) are
\* made through parser_call, defined after them.
RECURSIVE parser_call(_, _, _)

expr(P) == parser_call("expr_precedence", P, Precedence.Imply)

expr_grouping(P) ==
    LET closed(P2, inner) ==
            IF P2.ok THEN [P2 EXCEPT !.expr = <<"Grouping", inner>>] ELSE P2
        grouped(P1) == IF P1.ok THEN closed(expects(P1, "RightParen"), P1.expr) ELSE P1
    IN grouped(expr(P))

expr_binary(P, lhs) ==
    LET op == previous(P)
        precedence == up(get_rule(op.token_type).precedence)
        built(P1) ==
            IF P1.ok THEN [P1 EXCEPT !.expr = <<"BinaryOp", lhs, op, P1.expr>>] ELSE P1
    IN built(parser_call("expr_precedence", P, precedence))

expr_unary(P) ==
    LET op == previous(P)
        built(P1) == IF P1.ok THEN [P1 EXCEPT !.expr = <<"UnaryOp", op, P1.expr>>] ELSE P1
    IN built(parser_call("expr_precedence", P, Precedence.Unary))

expr_unary_rule(P) ==
    LET op == previous(P)
        precedence == get_rule(op.token_type).precedence
        \* Convert '~'s into 'not's
        not_op == IF op.token_type = "Tilde" THEN [op EXCEPT !.token_type = "Not"] ELSE op
        built(P1) ==
            IF P1.ok THEN [P1 EXCEPT !.expr = <<"UnaryOp", not_op, P1.expr>>] ELSE P1
    IN built(parser_call("expr_precedence", P, precedence))

\* Ok(None) is the Expr <<"None">>, Ok(Some(arg_list)) is <<"Some", arg_list>>
make_arg_list(P) ==
    LET RECURSIVE args_loop(_, _)
        pushed(P1, arg_list) ==
            CASE ~P1.ok -> P1
              [] parser_current(P1).token_type # "Comma" ->
                   [P1 EXCEPT !.expr = Append(arg_list, P1.expr)]
              [] OTHER -> args_loop(next_token(P1), Append(arg_list, P1.expr))
        args_loop(P0, arg_list) == pushed(expr(P0), arg_list)
        closed(P3, arg_list) ==
            IF P3.ok THEN [P3 EXCEPT !.expr = <<"Some", arg_list>>] ELSE P3
        listed(P2) == IF P2.ok THEN closed(expects(P2, "RightParen"), P2.expr) ELSE P2
    IN CASE previous(P).token_type # "LeftParen" ->
              [P EXCEPT !.ok = TRUE, !.expr = <<"None">>]
         [] parser_current(P).token_type # "RightParen" -> listed(args_loop(P, <<>>))
         [] OTHER -> listed([P EXCEPT !.ok = TRUE, !.expr = <<>>])

expr_call(P, func_ref) ==
    LET op == previous(P)
        built(P1) ==
            CASE ~P1.ok -> P1
              [] P1.expr = <<"None">> -> parser_panic(P1)
              [] OTHER -> [P1 EXCEPT !.expr = <<"Call", func_ref, op, P1.expr[2]>>]
    IN built(make_arg_list(P))

expr_dot(P, var_ref) ==
    LET built(P1) ==
            IF P1.ok THEN [P1 EXCEPT !.expr = <<"Dot", var_ref, previous(P1)>>] ELSE P1
    IN built(expects(P, "Identifier"))

expr_deref(P, var_ref) ==
    expr_dot(P, <<"UnaryOp", [previous(P) EXCEPT !.token_type = "Caret"], var_ref>>)

expr_primary(P) ==
    LET token == previous(P)
        Literal(P1, value) ==
            IF P1.ok THEN [P1 EXCEPT !.expr = <<"Literal", value>>] ELSE P1
        \* Consume optional identifier & parens
        nil_parens(P1) ==
            expects(optional(P1, "Identifier"), "RightParen")
    IN CASE token.token_type \in {"StringLiteral", "CharLiteral", "NatLiteral",
                                  "RealLiteral"} ->
              Literal([P EXCEPT !.ok = TRUE], token)
         [] token.token_type \in {"True", "False"} ->
              Literal([P EXCEPT !.ok = TRUE],
                      [token_type |-> "BoolLiteral",
                       value |-> IF token.token_type = "True" THEN 1 ELSE 0])
         [] token.token_type = "Nil" ->
              IF parser_current(P).token_type = "LeftParen"
              THEN Literal(nil_parens(next_token(P)), token)
              ELSE Literal([P EXCEPT !.ok = TRUE], token)
         [] OTHER -> [P EXCEPT !.ok = FALSE]

expr_ident(P) ==
    IF previous(P).token_type = "Identifier"
    THEN [P EXCEPT !.ok = TRUE, !.expr = <<"Reference", previous(P)>>]
    ELSE parser_panic(P)

expr_precedence(P, min_precedence) ==
    LET prefix_rule(P1, rule) ==
            CASE rule = "expr_grouping" -> expr_grouping(P1)
              [] rule = "expr_unary" -> expr_unary(P1)
              [] rule = "expr_unary_rule" -> expr_unary_rule(P1)
              [] rule = "expr_primary" -> expr_primary(P1)
              [] rule = "expr_ident" -> expr_ident(P1)
              \* prefix_rule? after the token is consumed
              [] OTHER -> [P1 EXCEPT !.ok = FALSE]
        infix_rule(P3, rule, lhs) ==
            CASE rule = "expr_call" -> expr_call(P3, lhs)
              [] rule = "expr_binary" -> expr_binary(P3, lhs)
              [] rule = "expr_deref" -> expr_deref(P3, lhs)
              [] rule = "expr_dot" -> expr_dot(P3, lhs)
        RECURSIVE infix_loop(_)
        produced(P4) == IF P4.ok THEN infix_loop(P4) ELSE P4
        operator(P2, infix) ==
            CASE ~(/\ ~parser_is_at_end(P2)
                   /\ min_precedence <= infix.precedence) -> P2
              \* Is a deref, identifier, or literal
              [] infix.precedence >= Precedence.Follow -> P2
              [] infix.infix_rule = "None" -> parser_panic(P2)
              [] OTHER -> produced(infix_rule(next_token(P2), infix.infix_rule, P2.expr))
        infix_loop(P2) == operator(P2, get_rule(parser_current(P2).token_type))
    IN produced(prefix_rule(next_token(P),
                            get_rule(parser_current(P).token_type).prefix_rule))

\* ---- Type parsing: a TypeRef is only declared or reported, never read back by
\* ---- the parser, so the operators return the Parser after the type is parsed
MAX_STRING_SIZE == 65536

\* Result<TypeRef, ()> in P.ok
type_range(P, parse_context) ==
    LET \* type_range_rest: Consume range dots, then the end range
        type_range_rest(P2) ==
            IF parser_current(next_token(P2)).token_type = "Star"
            THEN next_token(next_token(P2))
            ELSE expr(next_token(P2))
        ranged(P3) == IF P3.panicked THEN P3 ELSE [P3 EXCEPT !.ok = TRUE]
        started(P1) ==
            CASE ~P1.ok -> P1
              [] parser_current(P1).token_type # "Range" -> [P1 EXCEPT !.ok = FALSE]
              [] OTHER -> ranged(type_range_rest(P1))
    IN started(expr(P))

type_index(P, parse_context) ==
    LET indexed(P1) == IF P1.panicked THEN P1 ELSE [P1 EXCEPT !.ok = TRUE]
    IN IF parser_current(P).token_type \in {"Boolean", "Char"}
       THEN indexed(parser_call("parse_type", P, parse_context))
       ELSE type_range(P, parse_context)

type_array(P, parse_context) ==
    LET RECURSIVE ranges_loop(_)
        range_parsed(P3) ==
            CASE ~P3.ok -> P3
              [] parser_current(P3).token_type = "Comma" -> ranges_loop(next_token(P3))
              [] OTHER -> P3
        ranges_loop(P2) == range_parsed(type_index(P2, "Array"))
        element_type(P4) ==
            IF P4.panicked THEN P4 ELSE parser_call("parse_type", expects(P4, "Of"), "Array")
        array_tok(P1) == IF P1.ok THEN element_type(ranges_loop(P1)) ELSE parser_panic(P1)
    IN array_tok(expects(optional(P, "Flexible"), "Array"))

type_var_param(P, parse_context) ==
    LET RECURSIVE idents_loop(_)
        idents_loop(P1) ==
            IF parser_current(expects(P1, "Identifier")).token_type = "Comma"
            THEN idents_loop(next_token(expects(P1, "Identifier")))
            ELSE expects(P1, "Identifier")
        typed(P2) == parser_call("parse_type", optional(expects(P2, "Colon"), "Cheat"), parse_context)
    IN typed(idents_loop(optional(optional(P, "Var"), "Register")))

type_subprogram_param(P, parse_context) ==
    parser_call("type_function", expects(next_token(P), "Identifier"),
                <<parse_context, parser_current(P).token_type = "Function">>)

type_function(P, parse_context, has_result) ==
    LET param_context == IF has_result THEN "Function" ELSE "Procedure"
        RECURSIVE params_loop(_)
        pushed(P2) ==
            CASE P2.panicked -> P2
              [] parser_current(P2).token_type # "Comma" -> P2
              [] OTHER -> params_loop(next_token(P2))
        params_loop(P1) ==
            IF parser_current(P1).token_type \in {"Function", "Procedure"}
            THEN pushed(type_subprogram_param(P1, param_context))
            ELSE pushed(type_var_param(P1, param_context))
        closed(P3) == IF P3.panicked THEN P3 ELSE expects(P3, "RightParen")
        param_decl(P0) ==
            CASE parser_current(P0).token_type # "LeftParen" -> P0
              [] parser_current(next_token(P0)).token_type # "RightParen" ->
                   closed(params_loop(next_token(P0)))
              [] OTHER -> closed(next_token(P0))
        result_type(P4) ==
            CASE P4.panicked -> P4
              [] has_result -> parser_call("parse_type", expects(P4, "Colon"), parse_context)
              [] OTHER -> P4
    IN result_type(param_decl(P))

parse_type(P, parse_context) ==
    LET token_type == parser_current(P).token_type
        type_primitive(P1) == next_token(P1)
        get_size_specifier(P1) ==
            CASE /\ parser_current(P1).token_type = "NatLiteral"
                 /\ parser_current(P1).value > 0 ->
                   IF parser_current(P1).value >= MAX_STRING_SIZE
                   THEN [P1 EXCEPT !.ok = FALSE]
                   ELSE [next_token(P1) EXCEPT !.ok = TRUE]
              [] parser_current(P1).token_type = "Star" ->
                   [next_token(P1) EXCEPT !.ok = parse_context \in {"Function", "Procedure"}]
              [] OTHER -> [P1 EXCEPT !.ok = FALSE]
        type_char_seq(P1) ==
            IF parser_current(next_token(P1)).token_type = "LeftParen"
            THEN expects(get_size_specifier(next_token(next_token(P1))), "RightParen")
            ELSE next_token(P1)
        type_pointer(P1) ==
            IF parser_current(P1).token_type = "Pointer"
            THEN parser_call("parse_type", expects(next_token(P1), "To"), parse_context)
            ELSE parser_call("parse_type", next_token(P1), parse_context)
        \* Err(_) => TypeRef::TypeError
        type_set(P1) == type_range(expects(next_token(P1), "Of"), "Set")
        type_ident(P1) == next_token(P1)
    IN CASE token_type \in {"Addressint", "Boolean", "Int", "Int1", "Int2", "Int4",
                            "Nat", "Nat1", "Nat2", "Nat4", "Real", "Real4", "Real8"} ->
              type_primitive(P)
         [] token_type \in {"String_", "Char"} -> type_char_seq(P)
         [] token_type = "Flexible" /\ parser_peek(P).token_type = "Array" ->
              type_array(P, parse_context)
         [] token_type = "Array" -> type_array(P, parse_context)
         [] token_type \in {"Pointer", "Caret"} -> type_pointer(P)
         [] token_type = "Set" -> type_set(P)
         [] token_type \in {"Function", "Procedure"} ->
              parser_call("type_function", expects(next_token(P), "Identifier"),
                          <<parse_context, token_type = "Function">>)
         [] token_type \in {"Enum", "Record", "Union"} -> parser_panic(P)
         [] token_type = "Identifier" /\ parser_peek(P).token_type # "Range" ->
              type_ident(P)
         \* Try to parse a range type
         [] OTHER -> type_range(P, parse_context)

\* ---- Decl and Stmt parsing: Result<Stmt, ParsingStatus> in P.ok ----
decl_var(P, is_const) ==
    LET decl_tok == previous(next_token(P))
        RECURSIVE idents_loop(_)
        after_comma(P2) == IF P2.ok THEN idents_loop(P2) ELSE P2
        idents_loop(P1) ==
            IF parser_current(P1).token_type = "Comma"
            THEN after_comma(expects(next_token(P1), "Identifier"))
            ELSE P1
        type_spec(P3) ==
            IF parser_current(P3).token_type = "Colon"
            THEN parser_call("parse_type", next_token(P3), decl_tok.token_type)
            ELSE P3
        declared(P5) == IF P5.panicked THEN P5 ELSE [P5 EXCEPT !.ok = TRUE]
        assign_expr(P4) ==
            CASE P4.panicked -> P4
              [] is_simple_assignment(P4) -> declared(expr(next_token(P4)))
              [] OTHER -> declared(P4)
        ident_tokens(P0) == IF P0.ok THEN assign_expr(type_spec(idents_loop(P0))) ELSE P0
    IN ident_tokens(expects(next_token(P), "Identifier"))

decl_type(P) ==
    LET ident_is_some == parser_current(next_token(P)).token_type = "Identifier"
        declared(P2) == IF P2.panicked THEN P2 ELSE [P2 EXCEPT !.ok = ident_is_some]
        ident(P1) ==
            IF P1.ok
            THEN declared(parser_call("parse_type", expects(P1, "Colon"), "Type"))
            ELSE declared(parser_call("parse_type", optional(P1, "Colon"), "Type"))
    IN ident(expects(next_token(P), "Identifier"))

stmt_reference(P) ==
    LET assigned(P3, var_ref, op) ==
            IF P3.ok THEN [P3 EXCEPT !.expr = <<"Assign", var_ref, op, P3.expr>>] ELSE P3
        reference(P1) ==
            CASE ~P1.ok -> P1
              [] is_compound_assignment(P1) ->
                   assigned(expr(next_token(next_token(P1))), P1.expr, parser_current(P1))
              [] is_simple_assignment(P1) ->
                   assigned(expr(next_token(P1)), P1.expr,
                            [parser_current(P1) EXCEPT !.token_type = "Assign"])
              [] OTHER -> [P1 EXCEPT !.expr = <<"ProcedureCall", P1.expr>>]
    IN reference(parser_call("expr_precedence", P, Precedence.Deref))

\* stmt_block up to its loop: Nom begin, push_block.  The loop and what follows
\* it are the actions stmt_block_loop and stmt_block_end.
stmt_block(P) == [next_token(P) EXCEPT !.blocks = @ + 1, !.pc = "stmt_block"]

\* stmt without the nom of a token that begins no statement
stmt_without_nom(P) ==
    CASE parser_current(P).token_type \in {"Identifier", "Caret"} -> stmt_reference(P)
      [] parser_current(P).token_type = "Begin" -> stmt_block(P)
      [] OTHER -> [P EXCEPT !.ok = FALSE]

parser_stmt(P) ==
    CASE parser_current(P).token_type \in {"Identifier", "Caret"} -> stmt_reference(P)
      [] parser_current(P).token_type = "Begin" -> stmt_block(P)
      \* Nom as token isn't consumed by anything else
      [] OTHER -> [next_token(P) EXCEPT !.ok = FALSE]

decl(P) ==
    CASE parser_current(P).token_type = "Var" -> decl_var(P, FALSE)
      [] parser_current(P).token_type = "Const" -> decl_var(P, TRUE)
      [] parser_current(P).token_type = "Type" -> decl_type(P)
      [] OTHER -> parser_stmt(P)

parser_call(fn, P, arg) ==
    CASE fn = "expr_precedence" -> expr_precedence(P, arg)
      [] fn = "parse_type" -> parse_type(P, arg)
      [] fn = "type_function" -> type_function(P, arg[1], arg[2])
      [] fn = "decl" -> decl(P)

\* where the Parser is once decl has returned to the loop that called it: a
\* stmt_block has just begun (its loop runs next), the thread has panicked,
\* or the loop goes on; parse's loop first takes a ';'
decl_returns(P) ==
    CASE P.panicked -> [P EXCEPT !.pc = "panic"]
      [] P.pc = "stmt_block" -> P
      [] P.blocks = 1 -> [optional(P, "Semicolon") EXCEPT !.pc = "parse"]
      [] OTHER -> [P EXCEPT !.pc = "stmt_block"]

\* one run of the body of parse's loop, up to the return of decl or to the
\* loop of the stmt_block that decl enters
parse_loop ==
    /\ parser.pc = "parse"
    /\ ~parser_is_at_end(parser)
    /\ parser' = decl_returns(parser_call("decl", [parser EXCEPT !.iters = @ + 1], <<>>))
    /\ UNCHANGED <<scanVars, cst, types, validator, const_eval>>

\* the end of parse's loop
parse_finish ==
    /\ parser.pc = "parse"
    /\ parser_is_at_end(parser)
    /\ parser' = [parser EXCEPT !.pc = "done"]
    /\ UNCHANGED <<scanVars, cst, types, validator, const_eval>>

\* one run of the body of the loop of the innermost stmt_block
stmt_block_loop ==
    /\ parser.pc = "stmt_block"
    /\ parser_current(parser).token_type \notin {"End", "Eof"}
    /\ parser' = decl_returns(parser_call("decl", [parser EXCEPT !.iters = @ + 1], <<>>))
    /\ UNCHANGED <<scanVars, cst, types, validator, const_eval>>

\* the end of the loop of the innermost stmt_block: the 'end' is taken unless at
\* Eof, pop_block, and Ok(Stmt::Block) is returned through stmt and decl
stmt_block_end ==
    /\ parser.pc = "stmt_block"
    /\ parser_current(parser).token_type \in {"End", "Eof"}
    /\ parser' = decl_returns([optional(parser, "End") EXCEPT
                                   !.blocks = @ - 1, !.ok = TRUE, !.pc = "returned",
                                   !.expr = <<"Block">>])
    /\ UNCHANGED <<scanVars, cst, types, validator, const_eval>>

MaxParseLen == 4

\* the token lists given to the parser: they end in Eof
ParseTokenLists ==
    LET token_types_used ==
            {"Begin", "End", "Var", "Type", "Identifier", "Colon", "Comma", "Assign",
             "Semicolon", "NatLiteral", "Plus", "Tilde", "LeftParen", "RightParen",
             "Int", "Function", "Record", "Eof"}
        token_of(token_type) ==
            [token_type |-> token_type,
             value |-> IF token_type = "NatLiteral" THEN 1 ELSE 0]
        \* the tokens that get_rule gives the infix rule expr_binary
        binary_operators ==
            {"Imply", "Or", "And", "Less", "Greater", "Equ", "LessEqu", "GreaterEqu",
             "NotEq", "In", "NotIn", "Plus", "Minus", "Xor", "Star", "Slash", "Div",
             "Mod", "Rem", "Shl", "Shr", "Exp"}
        operand(value) == [token_type |-> "NatLiteral", value |-> value]
    IN {[i \in 1..(Len(token_types) + 1) |->
           IF i <= Len(token_types) THEN token_of(token_types[i]) ELSE token_of("Eof")] :
         token_types \in Sources(token_types_used, MaxParseLen)}
       \* the statements `a := 1 op 2 op 3`
       \cup {<<token_of("Identifier"), token_of("Assign"), operand(1), token_of(first_op),
               operand(2), token_of(second_op), operand(3), token_of("Eof")>> :
                 first_op \in binary_operators, second_op \in binary_operators}

InitParse ==
    /\ \E toks \in ParseTokenLists :
          \* Parser::new: blocks holds the root block
          parser = [tokens |-> toks, current |-> 0, blocks |-> 1, ok |-> TRUE,
                    panicked |-> FALSE, expr |-> <<>>, pc |-> "parse", iters |-> 0]
    /\ IdleExcept("parser")

NextParse == parse_loop \/ parse_finish \/ stmt_block_loop \/ stmt_block_end

SpecParse == InitParse /\ [][NextParse]_vars

\* a bound on the steps parse still takes: two for every token not yet consumed,
\* one for every stmt_block to leave, one to leave parse's loop
ParseVariant ==
    2 * (Len(parser.tokens) - parser.current) + parser.blocks
      + (IF parser.pc \in {"parse", "stmt_block"} THEN 1 ELSE 0)

\* C5: the parser terminates on every token list that ends in Eof: every run of
\* the body of parse's statement loop and of the statement loop of a begin block
\* consumes at least one token, also when the statement fails to parse (or
\* panics), no step gives a token back, and every step counts ParseVariant down.
C5_ParserProgress ==
    /\ [][parser'.iters # parser.iters => parser'.current > parser.current]_vars
    /\ [][parser'.current >= parser.current]_vars
    /\ [][ParseVariant' < ParseVariant]_vars
    /\ [](parser.current < Len(parser.tokens) \/ parser = NotRunning.parser)

\* a statement inside a begin block has failed to parse, and the block's loop
\* goes on behind the token the statement took
C5_Witness ==
    /\ parser.tokens[1].token_type = "Begin"
    /\ parser.pc = "stmt_block"
    /\ parser.blocks = 2
    /\ parser.iters = 2
    /\ ~parser.ok
    /\ parser.current = 2

(***************************************************************************)
(* The type table and the relations between types, src/compiler/types.rs.  *)
(* A TypeRef is a record of its kind, its PrimitiveType with the           *)
(* SequenceSize of a string(n) or char(n) (<<"Size", n>>,                  *)
(* <<"CompileExpr", id>>, or <<>> for the other primitives), and the id of *)
(* a Named.  A call returns a value, panics, or never returns.             *)
(***************************************************************************)
TypeRef(kind, prim, size, id) == [kind |-> kind, prim |-> prim, size |-> size, id |-> id]

Returns(value) == [outcome |-> "returns", value |-> value]

is_error(type_ref) == type_ref.kind = "TypeError"

is_string(type_ref) == type_ref.kind = "Primitive" /\ type_ref.prim = "String_"

is_charn(type_ref) == type_ref.kind = "Primitive" /\ type_ref.prim = "CharN"

is_char(type_ref) == type_ref.kind = "Primitive" /\ type_ref.prim = "Char"

\* is_char_seq_type without its CharN
is_char_seq_type_of_strings(type_ref) ==
    type_ref.kind = "Primitive" /\ type_ref.prim \in {"String_", "StringN"}

is_char_seq_type(type_ref) ==
    type_ref.kind = "Primitive" /\ type_ref.prim \in {"String_", "StringN", "CharN"}

is_sized_char_seq_type(type_ref) ==
    type_ref.kind = "Primitive" /\ type_ref.prim \in {"StringN", "CharN"}

\* the length with the null terminator counted in
get_sized_len_with_terminator(type_ref) ==
    IF is_sized_char_seq_type(type_ref) /\ type_ref.size[1] = "Size"
    THEN <<type_ref.size[2] + 1>>
    ELSE <<>>

\* Option<usize>: <<s>> is Some(s), <<>> is None
get_sized_len(type_ref) ==
    IF is_sized_char_seq_type(type_ref) /\ type_ref.size[1] = "Size"
    THEN <<type_ref.size[2]>>
    ELSE <<>>

is_real(type_ref) ==
    type_ref.kind = "Primitive" /\ type_ref.prim \in {"Real", "Real4", "Real8"}

is_integer_type(type_ref) ==
    /\ type_ref.kind = "Primitive"
    /\ type_ref.prim \in {"Int", "Int1", "Int2", "Int4", "Nat", "Nat1", "Nat2", "Nat4",
                          "LongInt", "Int8", "LongNat", "Nat8", "AddressInt", "IntNat"}

\* a Type of the table: its kind and, by kind, the TypeRef it holds (Alias.to,
\* Pointer.to, Set.range, Range.base_type, Function.result with has_result),
\* Forward.is_resolved, the literal values of Range.start and Range.end (-1 for
\* an expression that is no literal) with has_end, and Function.params.  The
\* expr of a Reference is an identifier: `to` is its type_spec, and is_typedef
\* whether it names a type
Type(kind, to, flags, range, params) ==
    [kind |-> kind, to |-> to, is_resolved |-> flags[1], has_result |-> flags[2],
     has_end |-> flags[3], is_typedef |-> flags[4], start |-> range[1],
     end |-> range[2], params |-> params]

is_equivalent_to(lhs, rhs, type_table) ==
    LET unwrap_or_1(len) == IF len = <<>> THEN 1 ELSE len[1]
        \* Value::try_from(a) and (b), then apply_binary(a, Equ, b)
        is_eq(a, b) == a >= 0 /\ b >= 0 /\ a = b
        RECURSIVE equivalent(_, _, _)
        range_eq(left_info, right_info, base) ==
            CASE base.outcome # "returns" -> base
              [] ~base.value -> Returns(FALSE)
              [] left_info.has_end /\ ~right_info.has_end -> Returns(FALSE)
              [] OTHER ->
                   Returns(/\ is_eq(left_info.start, right_info.start)
                           /\ left_info.has_end /\ right_info.has_end
                           /\ is_eq(left_info.end, right_info.end))
        by_info(left_info, right_info, depth) ==
            CASE depth = 0 -> [outcome |-> "overflows", value |-> FALSE]
              [] left_info.kind = "Function" ->
                   Returns(/\ right_info.kind = "Function"
                           /\ left_info.params = right_info.params
                           /\ left_info.has_result = right_info.has_result
                           /\ left_info.to = right_info.to)
              [] left_info.kind = "Set" ->
                   IF right_info.kind = "Set"
                   THEN equivalent(left_info.to, right_info.to, depth - 1)
                   ELSE Returns(FALSE)
              [] left_info.kind = "Range" ->
                   IF right_info.kind = "Range"
                   THEN range_eq(left_info, right_info,
                                 equivalent(left_info.to, right_info.to, depth - 1))
                   ELSE Returns(FALSE)
              \* todo!("??? {:?} & {:?}", left_info, right_info)
              [] OTHER -> [outcome |-> "panics", value |-> FALSE]
        equivalent(l, r, depth) ==
            CASE is_error(l) \/ is_error(r) -> Returns(FALSE)
              [] l = r -> Returns(TRUE)
              [] is_integer_type(l) /\ is_integer_type(r) -> Returns(TRUE)
              [] is_real(l) /\ is_real(r) -> Returns(TRUE)
              [] is_char(l) /\ is_char(r) -> Returns(TRUE)
              [] (is_char(l) /\ is_charn(r)) \/ (is_charn(l) /\ is_char(r)) ->
                   Returns(unwrap_or_1(get_sized_len(l)) = unwrap_or_1(get_sized_len(r)))
              [] l.kind = "Named" /\ r.kind = "Named" ->
                   \* get_type: &self.types[type_id]
                   IF l.id < Len(type_table) /\ r.id < Len(type_table)
                   THEN by_info(type_table[l.id + 1], type_table[r.id + 1], depth)
                   ELSE [outcome |-> "panics", value |-> FALSE]
              [] OTHER -> Returns(FALSE)
    \* a recursion deeper than the pairs of types of the table never ends
    IN equivalent(lhs, rhs, Len(type_table) * Len(type_table) + 1)

\* is_assignable_to without `rvalue == lvalue` and without the equivalences
is_assignable_to_by_class(lvalue, rvalue, type_table) ==
    LET unwrap_or_1(len) == IF len = <<>> THEN 1 ELSE len[1]
    IN CASE is_error(lvalue) \/ is_error(rvalue) -> Returns(FALSE)
         [] is_integer_type(lvalue) /\ is_integer_type(rvalue) -> Returns(TRUE)
         [] is_real(lvalue) /\ (is_real(rvalue) \/ is_integer_type(rvalue)) -> Returns(TRUE)
         [] is_string(lvalue) /\ is_char_seq_type(rvalue) -> Returns(TRUE)
         [] is_sized_char_seq_type(lvalue) /\ is_sized_char_seq_type(rvalue) ->
              IF get_sized_len(lvalue) = <<>> \/ get_sized_len(rvalue) = <<>>
              THEN [outcome |-> "panics", value |-> FALSE]
              ELSE Returns(\/ get_sized_len(lvalue)[1] = 0
                           \/ get_sized_len(lvalue)[1] >= get_sized_len(rvalue)[1])
         [] is_sized_char_seq_type(lvalue) /\ is_string(rvalue) -> Returns(TRUE)
         [] \/ is_char_seq_type(lvalue) /\ is_char(rvalue)
            \/ is_char(lvalue) /\ is_char_seq_type(rvalue) ->
              Returns(unwrap_or_1(get_sized_len(lvalue)) >= unwrap_or_1(get_sized_len(rvalue)))
         [] OTHER -> Returns(FALSE)

is_assignable_to(lvalue, rvalue, type_table) ==
    LET unwrap_or_1(len) == IF len = <<>> THEN 1 ELSE len[1]
        \* is_number_type
        is_number_type(type_ref) == is_real(type_ref) \/ is_integer_type(type_ref)
    IN CASE rvalue = lvalue -> Returns(TRUE)
         [] is_error(lvalue) \/ is_error(rvalue) -> Returns(FALSE)
         [] is_integer_type(lvalue) /\ is_integer_type(rvalue) -> Returns(TRUE)
         [] is_real(lvalue) /\ is_number_type(rvalue) -> Returns(TRUE)
         [] is_string(lvalue) /\ is_char_seq_type(rvalue) -> Returns(TRUE)
         [] is_sized_char_seq_type(lvalue) /\ is_sized_char_seq_type(rvalue) ->
              \* get_sized_len(..).unwrap()
              IF get_sized_len(lvalue) = <<>> \/ get_sized_len(rvalue) = <<>>
              THEN [outcome |-> "panics", value |-> FALSE]
              ELSE Returns(\/ get_sized_len(lvalue)[1] = 0
                           \/ get_sized_len(lvalue)[1] >= get_sized_len(rvalue)[1])
         [] is_sized_char_seq_type(lvalue) /\ is_string(rvalue) -> Returns(TRUE)
         [] \/ is_char_seq_type(lvalue) /\ is_char(rvalue)
            \/ is_char(lvalue) /\ is_char_seq_type(rvalue) ->
              Returns(unwrap_or_1(get_sized_len(lvalue)) >= unwrap_or_1(get_sized_len(rvalue)))
         \* type_from_ref(lvalue) is Some(Type::Range { base_type, .. })
         [] lvalue.kind = "Named" /\ lvalue.id >= Len(type_table) ->
              [outcome |-> "panics", value |-> FALSE]
         [] lvalue.kind = "Named" /\ type_table[lvalue.id + 1].kind = "Range" ->
              is_equivalent_to(type_table[lvalue.id + 1].to, rvalue, type_table)
         [] OTHER -> is_equivalent_to(lvalue, rvalue, type_table)

\* dealias_ref that follows one Alias only
dealias_ref_once(type_ref, type_table, debug_assertions) ==
    CASE type_ref.kind # "Named" -> Returns(type_ref)
      [] type_ref.id >= Len(type_table) -> [outcome |-> "panics", value |-> type_ref]
      [] type_table[type_ref.id + 1].kind = "Alias" ->
           Returns(type_table[type_ref.id + 1].to)
      [] OTHER -> Returns(type_ref)

\* debug_assertions: whether the build keeps debug_assert!
dealias_ref(type_ref, type_table, debug_assertions) ==
    LET RECURSIVE loop(_, _)
        \* followed counts the Alias entries passed: more than the table holds
        \* is a cycle, and the loop never ends
        loop(current_ref, followed) ==
            CASE current_ref.kind # "Named" -> Returns(current_ref)
              [] current_ref.id >= Len(type_table) ->
                   [outcome |-> "panics", value |-> current_ref]
              [] type_table[current_ref.id + 1].kind = "Alias" ->
                   IF followed = Len(type_table)
                   THEN [outcome |-> "diverges", value |-> current_ref]
                   ELSE loop(type_table[current_ref.id + 1].to, followed + 1)
              [] /\ debug_assertions
                 /\ type_table[current_ref.id + 1].kind = "Reference" ->
                   [outcome |-> "panics", value |-> current_ref]
              [] OTHER -> Returns(current_ref)
    IN loop(type_ref, 0)

\* ---- the type table, and calls on it ----
MaxTypes == 2

\* the TypeRefs given to the calls, and held by the types of the table
TypeRefs ==
    {TypeRef("Unknown", "", <<>>, 0), TypeRef("TypeError", "", <<>>, 0)}
    \cup {TypeRef("Primitive", prim, <<>>, 0) :
            prim \in {"Boolean", "Int", "Int1", "Nat", "LongNat", "IntNat", "AddressInt",
                      "Real", "Real4", "String_", "Char", "Nil"}}
    \cup {TypeRef("Primitive", prim, size, 0) :
            prim \in {"StringN", "CharN"},
            size \in {<<"Size", 0>>, <<"Size", 1>>, <<"Size", 2>>, <<"CompileExpr", 0>>}}
    \cup {TypeRef("Named", "", <<>>, id) : id \in 0..MaxTypes}

\* the Types declared
Types ==
    LET IntRef == TypeRef("Primitive", "Int", <<>>, 0)
        NoRef == TypeRef("Unknown", "", <<>>, 0)
        None == <<FALSE, FALSE, FALSE, FALSE>>
        Refs == {IntRef, TypeRef("Named", "", <<>>, 0), TypeRef("Named", "", <<>>, 1)}
    IN {Type("Alias", to, None, <<0, 0>>, <<>>) : to \in Refs}
       \cup {Type("Set", range, None, <<0, 0>>, <<>>) : range \in Refs \ {IntRef}}
       \cup {Type("Range", IntRef, <<FALSE, FALSE, has_end, FALSE>>, <<1, IF has_end THEN 2 ELSE 0>>, <<>>) :
               has_end \in BOOLEAN}
       \cup {Type("Forward", NoRef, None, <<0, 0>>, <<>>),
             Type("Pointer", IntRef, None, <<0, 0>>, <<>>),
             Type("Reference", NoRef, None, <<0, 0>>, <<>>),
             Type("Function", NoRef, None, <<0, 0>>, <<>>),
             Type("Function", IntRef, <<FALSE, TRUE, FALSE, FALSE>>, <<0, 0>>, <<<<>>>>)}

\* TypeTable::new, in a build with or without debug_assert!
InitTypes ==
    /\ types \in {[NotRunning.types EXCEPT !.pc = "table", !.debug_assertions = debug_assertions] :
                    debug_assertions \in BOOLEAN}
    /\ IdleExcept("types")

declare_type(type_info) ==
    /\ types.pc = "table"
    /\ Len(types.type_table) < MaxTypes
    /\ types' = [types EXCEPT !.type_table = Append(@, type_info)]
    /\ UNCHANGED <<scanVars, cst, parser, validator, const_eval>>

replace_type(replace_id, type_info) ==
    /\ types.pc = "table"
    /\ replace_id < Len(types.type_table)
    /\ types' = [types EXCEPT !.type_table[replace_id + 1] = type_info]
    /\ UNCHANGED <<scanVars, cst, parser, validator, const_eval>>

\* dealias_ref(type_ref), and dealias_ref of what it returned
dealias_ref_call(type_ref) ==
    /\ types.pc = "table"
    /\ LET first == dealias_ref(type_ref, types.type_table, types.debug_assertions)
       IN types' = [types EXCEPT
                      !.pc = "dealias_ref",
                      !.args = <<type_ref>>,
                      !.returned =
                          IF first.outcome = "returns"
                          THEN <<first, dealias_ref(first.value, types.type_table,
                                                    types.debug_assertions)>>
                          ELSE <<first>>]
    /\ UNCHANGED <<scanVars, cst, parser, validator, const_eval>>

is_assignable_to_call(lvalue, rvalue) ==
    /\ types.pc = "table"
    /\ types' = [types EXCEPT
                   !.pc = "is_assignable_to",
                   !.args = <<lvalue, rvalue>>,
                   !.returned = <<is_assignable_to(lvalue, rvalue, types.type_table)>>]
    /\ UNCHANGED <<scanVars, cst, parser, validator, const_eval>>

\* is_equivalent_to(lhs, rhs), and is_equivalent_to(rhs, lhs)
is_equivalent_to_call(lhs, rhs) ==
    /\ types.pc = "table"
    /\ types' = [types EXCEPT
                   !.pc = "is_equivalent_to",
                   !.args = <<lhs, rhs>>,
                   !.returned = <<is_equivalent_to(lhs, rhs, types.type_table),
                                  is_equivalent_to(rhs, lhs, types.type_table)>>]
    /\ UNCHANGED <<scanVars, cst, parser, validator, const_eval>>

NextTypes ==
    \/ \E type_info \in Types : declare_type(type_info)
    \/ \E replace_id \in 0..(MaxTypes - 1), type_info \in Types :
         replace_type(replace_id, type_info)
    \/ \E type_ref \in TypeRefs : dealias_ref_call(type_ref)
    \/ \E lvalue \in TypeRefs, rvalue \in TypeRefs : is_assignable_to_call(lvalue, rvalue)
    \/ \E lhs \in TypeRefs, rhs \in TypeRefs : is_equivalent_to_call(lhs, rhs)

SpecTypes == InitTypes /\ [][NextTypes]_vars

\* get_int_kind, with i64 of NatBits bits and i32 of half as many
get_int_kind(v) ==
    LET i32_MIN == 0 - 2 ^ (NatBits \div 2 - 1)
        i32_MAX == 2 ^ (NatBits \div 2 - 1) - 1
    IN  IF i32_MIN >= v /\ v <= i32_MAX THEN "Int" ELSE "LongInt"

get_int_kind_call(v) ==
    /\ types.pc = "table"
    /\ types' = [types EXCEPT !.pc = "get_int_kind", !.args = <<v>>,
                              !.returned = <<get_int_kind(v)>>]
    /\ UNCHANGED <<scanVars, cst, parser, validator, const_eval>>

\* get_int_kind called with each i64
SpecIntKind ==
    /\ InitTypes
    /\ [][\E v \in (0 - 2 ^ (NatBits - 1))..(2 ^ (NatBits - 1) - 1) :
              get_int_kind_call(v)]_vars

\* C6: dealias_ref is idempotent: when dealias_ref(T) returns, dealias_ref of
\* what it returned returns the same
C6_DealiasIdempotent ==
    (types.pc = "dealias_ref" /\ types.returned[1].outcome = "returns")
        => /\ Len(types.returned) = 2
           /\ types.returned[2] = types.returned[1]

\* a chain of two aliases has been followed to its end
C6_Witness ==
    /\ types.pc = "dealias_ref"
    /\ Len(types.returned) = 2
    /\ types.args[1] = TypeRef("Named", "", <<>>, 0)
    /\ Len(types.type_table) = 2
    /\ types.type_table[1] = Type("Alias", TypeRef("Named", "", <<>>, 1),
                                  <<FALSE, FALSE, FALSE, FALSE>>, <<0, 0>>, <<>>)
    /\ types.type_table[2].kind = "Alias"
    /\ types.returned[1].value = TypeRef("Primitive", "Int", <<>>, 0)

\* C8: is_assignable_to is reflexive: is_assignable_to(T, T) is true of every
\* well-formed de-aliased T other than TypeError (none, a primitive, or a type
\* of the table that is neither an alias nor a reference)
C8_AssignableReflexive ==
    (/\ types.pc = "is_assignable_to"
     /\ types.args[1] = types.args[2]
     /\ ~is_error(types.args[1])
     /\ types.args[1].kind = "Named" =>
          /\ types.args[1].id < Len(types.type_table)
          /\ types.type_table[types.args[1].id + 1].kind \notin {"Alias", "Reference"})
        => types.returned[1] = Returns(TRUE)

\* a pointer type has been checked against itself
C8_Witness ==
    /\ types.pc = "is_assignable_to"
    /\ types.args[1] = types.args[2]
    /\ types.args[1].kind = "Named"
    /\ types.args[1].id < Len(types.type_table)
    /\ types.type_table[types.args[1].id + 1].kind = "Pointer"
    /\ types.returned[1].value

\* C9: a char(n) of any n, and a char, are assignable to a string
C9_StringFromChars ==
    (/\ types.pc = "is_assignable_to"
     /\ is_string(types.args[1])
     /\ is_charn(types.args[2]) \/ is_char(types.args[2]))
        => types.returned[1] = Returns(TRUE)

\* a char has been checked against a string
C9_Witness ==
    /\ types.pc = "is_assignable_to"
    /\ is_string(types.args[1])
    /\ is_char(types.args[2])
    /\ types.returned[1].value

\* C10: between two sized char sequences, each a char(n) or a string(n) and a
\* `*` counted as the length 0, is_assignable_to(T1, T2) is true exactly when
\* T1 has the length 0 or at least the length of T2
C10_SizedCharSeq ==
    (/\ types.pc = "is_assignable_to"
     /\ \A i \in {1, 2} : /\ is_sized_char_seq_type(types.args[i])
                          /\ types.args[i].size[1] = "Size")
        => types.returned[1] = Returns(\/ types.args[1].size[2] = 0
                                       \/ types.args[1].size[2] >= types.args[2].size[2])

\* a string(1) has refused a char(2)
C10_Witness ==
    /\ types.pc = "is_assignable_to"
    /\ types.args[1] = TypeRef("Primitive", "StringN", <<"Size", 1>>, 0)
    /\ types.args[2] = TypeRef("Primitive", "CharN", <<"Size", 2>>, 0)
    /\ ~types.returned[1].value

(***************************************************************************)
(* The validator's resolution of `type` declarations,                      *)
(* compiler/toc_frontend/src/validator.  A Validator V is a record: the    *)
(* TypeTable, the build, the depth of the calls of resolve_type in         *)
(* progress, what the last call returned, and pc, which a call that does   *)
(* not return sets to "panic", "overflow" (a recursion without end) or     *)
(* "diverges" (a dealias_ref without end).                                 *)
(***************************************************************************)
RECURSIVE resolve_type(_, _, _)

\* Validator::dealias_resolve_type: V.eager is whether it resolves the type
\* before it follows the aliases
dealias_resolve_type(V, type_ref) ==
    LET dealiased(V1, found) ==
            CASE V1.pc # "validate" -> V1
              [] found.outcome = "returns" -> [V1 EXCEPT !.returned = found.value]
              [] found.outcome = "panics" -> [V1 EXCEPT !.pc = "panic"]
              [] OTHER -> [V1 EXCEPT !.pc = "diverges"]
        resolved(V1) ==
            dealiased(V1, dealias_ref(V1.returned, V1.type_table, V1.debug_assertions))
    IN IF V.eager
       THEN resolved(resolve_type(V, type_ref, FALSE))
       ELSE resolved([V EXCEPT !.returned = type_ref])

\* resolve_type_reference that gives the type of the identifier as it is
resolve_type_reference_as_named(V, reference, allow_forward) ==
    [V EXCEPT !.returned = IF reference.is_typedef
                           THEN reference.to
                           ELSE TypeRef("TypeError", "", <<>>, 0)]

\* allow_forward: resolving_context is ResolveContext::CompileTime(allow_forward)
resolve_type_reference(V, reference, allow_forward) ==
    LET TypeError == TypeRef("TypeError", "", <<>>, 0)
        checked(V1) ==
            CASE V1.pc # "validate" -> V1
              [] V1.returned.kind # "Named" -> V1
              [] V1.type_table[V1.returned.id + 1].kind # "Forward" -> V1
              [] ~V1.type_table[V1.returned.id + 1].is_resolved ->
                   [V1 EXCEPT !.returned = TypeError]
              [] ~allow_forward -> [V1 EXCEPT !.returned = TypeError]
              [] OTHER -> V1
    IN IF ~reference.is_typedef
       THEN [V EXCEPT !.returned = TypeError]
       ELSE checked(dealias_resolve_type(V, reference.to))

\* what it returns is V.returned
resolve_type(V, base_ref, allow_forward) ==
    LET type_id == base_ref.id
        \* replace_ref is <<>> for None
        replaced(V1, replace_ref, type_info) ==
            IF V1.pc # "validate"
            THEN V1
            ELSE [V1 EXCEPT
                    !.depth = @ - 1,
                    !.type_table = IF replace_ref = <<>>
                                   THEN [@ EXCEPT ![type_id + 1] = type_info]
                                   ELSE @,
                    !.returned = IF replace_ref = <<>> THEN base_ref ELSE replace_ref[1]]
        resolve_type_alias(V1, type_info) ==
            replaced(V1, <<>>, [type_info EXCEPT !.to = V1.returned])
        resolve_type_forward(V1, type_info) ==
            IF type_info.is_resolved
            THEN replaced(V1, <<>>, type_info)
            ELSE replaced(V1, <<TypeRef("TypeError", "", <<>>, 0)>>, type_info)
        resolve_type_pointer(V1, type_info) ==
            replaced(V1, <<>>, [type_info EXCEPT !.to = V1.returned])
        by_info(V1, type_info) ==
            CASE type_info.kind = "Alias" ->
                   resolve_type_alias(
                       IF is_error(type_info.to)
                       THEN [V1 EXCEPT !.returned = TypeRef("TypeError", "", <<>>, 0)]
                       ELSE resolve_type(V1, type_info.to, allow_forward),
                       type_info)
              [] type_info.kind = "Forward" -> resolve_type_forward(V1, type_info)
              [] type_info.kind = "Pointer" ->
                   resolve_type_pointer(resolve_type(V1, type_info.to, TRUE), type_info)
              [] type_info.kind = "Reference" ->
                   (LET referred == resolve_type_reference(V1, type_info, allow_forward)
                    IN replaced(referred, <<referred.returned>>, type_info))
              [] OTHER -> replaced(V1, <<>>, type_info)
    IN CASE V.pc # "validate" -> V
         [] base_ref.kind # "Named" -> [V EXCEPT !.returned = base_ref]
         \* deeper than the types and contexts there are, the calls never end
         [] V.depth > 2 * Len(V.type_table) -> [V EXCEPT !.pc = "overflow"]
         [] OTHER -> by_info([V EXCEPT !.depth = @ + 1], V.type_table[type_id + 1])

\* resolve_decl_type that resolves the type of a resolution statement and
\* leaves the Forward in the table
resolve_decl_type_without_alias(V, type_decl_stmt) ==
    CASE ~type_decl_stmt.ident.is_declared ->
           resolve_type(V, type_decl_stmt.resolved_type[1], FALSE)
      [] type_decl_stmt.resolved_type # <<>> ->
           resolve_type(V, type_decl_stmt.ident.type_spec, FALSE)
      [] OTHER -> V

\* type_decl_stmt: the ident, the resolved_type (<<>> for None) and is_new_def of
\* the TypeDecl being visited, which is V.stmts[V.visited + 1]
resolve_decl_type(V, type_decl_stmt) ==
    LET \* resolved_type.replace(dummy_ref)
        resolved_type_replace(V1) ==
            IF V1.pc # "validate" THEN V1
            ELSE [V1 EXCEPT !.stmts[V.visited + 1].resolved_type = <<V1.returned>>]
        \* ident.type_spec = self.resolve_type(..)
        type_spec_assign(V1) ==
            IF V1.pc # "validate" THEN V1
            ELSE [V1 EXCEPT !.stmts[V.visited + 1].ident.type_spec = V1.returned]
    IN CASE ~type_decl_stmt.ident.is_declared ->
              resolved_type_replace(resolve_type(V, type_decl_stmt.resolved_type[1], FALSE))
         [] type_decl_stmt.is_new_def ->
              IF type_decl_stmt.resolved_type # <<>>
              THEN type_spec_assign(resolve_type(V, type_decl_stmt.ident.type_spec, FALSE))
              ELSE V
         [] type_decl_stmt.resolved_type # <<>> ->
              type_spec_assign(resolve_type(
                  IF type_decl_stmt.ident.type_spec.kind = "Named"
                  THEN [V EXCEPT !.type_table[type_decl_stmt.ident.type_spec.id + 1] =
                                   Type("Alias", type_decl_stmt.resolved_type[1],
                                        <<FALSE, FALSE, FALSE, FALSE>>, <<0, 0>>, <<>>)]
                  ELSE V,
                  type_decl_stmt.ident.type_spec, FALSE))
         [] OTHER -> V

\* ---- a unit of `type` declarations, parsed and then validated ----
MaxDecls == 4

\* `type name : type_expr`, as the parser leaves it for the validator: the
\* TypeDecl statement, the identifier in the scope (pending: a forward that is
\* not resolved yet) and the types declared.  A name of "" is a missing
\* identifier; a type_expr is "forward", "int", the name of a type, or a
\* pointer to the name of a type
type_decl(name, type_expr) ==
    /\ validator.pc = "parse"
    /\ Len(validator.stmts) < MaxDecls
    /\ ~(name = "" /\ type_expr.kind = "forward")
    /\ LET scope == validator.scope
           found(n) == {i \in 1..Len(scope) : scope[i].name = n}
           last(n) == CHOOSE i \in found(n) : \A j \in found(n) : j <= i
           None == <<FALSE, FALSE, FALSE, FALSE>>
           Named(id) == TypeRef("Named", "", <<>>, id)
           Reference(n) ==
               IF found(n) # {}
               THEN Type("Reference", scope[last(n)].type_spec,
                         <<FALSE, FALSE, FALSE, TRUE>>, <<0, 0>>, <<>>)
               ELSE Type("Reference", TypeRef("TypeError", "", <<>>, 0), None,
                         <<0, 0>>, <<>>)
           \* the types the type_expr declares, and the TypeRef parsed
           parsed(table) ==
               CASE type_expr.kind = "name" ->
                      [table |-> Append(table, Reference(type_expr.name)),
                       ref |-> Named(Len(table))]
                 [] type_expr.kind = "pointer" ->
                      [table |-> table \o
                                 <<Reference(type_expr.name),
                                   Type("Pointer", Named(Len(table)), None, <<0, 0>>, <<>>)>>,
                       ref |-> Named(Len(table) + 1)]
                 [] OTHER ->
                      [table |-> table, ref |-> TypeRef("Primitive", "Int", <<>>, 0)]
           pending == found(name) # {} /\ scope[last(name)].pending
           declared(table, ref, stmt_ident, resolved_type, is_new_def, new_scope) ==
               validator' =
                   [validator EXCEPT
                      !.type_table = table,
                      !.scope = new_scope,
                      !.stmts = Append(@, [ident |-> stmt_ident,
                                           resolved_type |-> resolved_type,
                                           is_new_def |-> is_new_def])]
           Identifier(type_spec, is_declared) ==
               [name |-> name, type_spec |-> type_spec, is_declared |-> is_declared]
           in_scope(type_spec, is_pending) ==
               [name |-> name, type_spec |-> type_spec, pending |-> is_pending]
           then_declared(P, fresh) ==
               CASE name = "" ->
                      declared(P.table, P.ref, Identifier(P.ref, FALSE), <<P.ref>>, TRUE,
                               scope)
                 \* a forward declared again
                 [] type_expr.kind = "forward" /\ pending ->
                      declared(P.table, P.ref,
                               Identifier(scope[last(name)].type_spec, TRUE), <<>>, FALSE,
                               scope)
                 [] type_expr.kind = "forward" ->
                      declared(Append(P.table, Type("Forward", TypeRef("Unknown", "", <<>>, 0),
                                                    None, <<0, 0>>, <<>>)),
                               P.ref, Identifier(fresh, TRUE), <<>>, TRUE,
                               Append(scope, in_scope(fresh, TRUE)))
                 \* the resolution of a forward
                 [] pending ->
                      declared([P.table EXCEPT
                                  ![scope[last(name)].type_spec.id + 1].is_resolved = TRUE],
                               P.ref, Identifier(scope[last(name)].type_spec, TRUE),
                               <<P.ref>>, FALSE,
                               [scope EXCEPT ![last(name)].pending = FALSE])
                 [] OTHER ->
                      declared(Append(P.table, Type("Alias", P.ref, None, <<0, 0>>, <<>>)),
                               P.ref, Identifier(fresh, TRUE), <<P.ref>>, TRUE,
                               Append(scope, in_scope(fresh, FALSE)))
           parsed_then(P) == then_declared(P, Named(Len(P.table)))
       IN parsed_then(parsed(validator.type_table))
    /\ UNCHANGED <<scanVars, cst, parser, types, const_eval>>

\* Parser::parse is over, and resolve_unit makes the Validator
resolve_unit ==
    /\ validator.pc = "parse"
    /\ validator' = [validator EXCEPT !.pc = "validate", !.runs = 1]
    /\ UNCHANGED <<scanVars, cst, parser, types, const_eval>>

\* visit_stmt of the next TypeDecl of the unit
visit_stmt ==
    /\ validator.pc = "validate"
    /\ validator.visited < Len(validator.stmts)
    /\ validator' = [resolve_decl_type(validator, validator.stmts[validator.visited + 1])
                       EXCEPT !.visited = @ + 1]
    /\ UNCHANGED <<scanVars, cst, parser, types, const_eval>>

visit_finish ==
    /\ validator.pc = "validate"
    /\ validator.visited = Len(validator.stmts)
    /\ validator' = [validator EXCEPT !.pc = "done"]
    /\ UNCHANGED <<scanVars, cst, parser, types, const_eval>>

\* resolve_unit on the unit that was validated: a new Validator visits the
\* same statements with the same TypeTable
resolve_unit_again ==
    /\ validator.pc = "done"
    /\ validator.runs = 1
    /\ validator' = [validator EXCEPT !.pc = "validate", !.runs = 2, !.visited = 0]
    /\ UNCHANGED <<scanVars, cst, parser, types, const_eval>>

InitValidate ==
    /\ validator \in {[NotRunning.validator EXCEPT !.pc = "parse", !.eager = eager,
                                                   !.debug_assertions = debug_assertions] :
                        eager \in BOOLEAN, debug_assertions \in BOOLEAN}
    /\ IdleExcept("validator")

NextValidate ==
    \/ \E name \in {"", "a", "b"},
          type_expr \in [kind : {"forward", "int", "name", "pointer"}, name : {"a", "b"}] :
         type_decl(name, type_expr)
    \/ resolve_unit
    \/ resolve_unit_again
    \/ visit_stmt
    \/ visit_finish

SpecValidate == InitValidate /\ [][NextValidate]_vars

(***************************************************************************)
(* Range types, validator/types.rs: the end of resolve_type_range, where   *)
(* both bounds are compile-time values of equivalent types.  A bound is    *)
(* the Value that value::apply_ord gives for it, [kind, v]: an IntValue is *)
(* an i64, a NatValue a u64, and every other kind of Value has no ordinal. *)
(* u64 has NatBits bits, i64 as many, i128 twice as many, usize as many as *)
(* the target's pointer (validator.range.usize_bits).                      *)
(***************************************************************************)
\* the arithmetic done in i64
get_range_size_in_i64(start_bound, end_bound, usize_bits) ==
    LET Ok(size) == [ok |-> TRUE, size |-> size, err |-> ""]
        Err(err) == [ok |-> FALSE, size |-> 0, err |-> err]
        I64_MAX == 2 ^ (NatBits - 1) - 1
        in_i64(v) == (0 - I64_MAX) - 1 <= v /\ v <= I64_MAX
        range_size == (end_bound.v + 1) - start_bound.v
    IN  CASE ~({start_bound.kind, end_bound.kind} \subseteq {"IntValue", "NatValue"}) ->
                 Err("WrongTypes")
          [] ~(in_i64(start_bound.v) /\ in_i64(end_bound.v + 1) /\ in_i64(range_size)) ->
                 Err("arithmetic overflow")
          [] range_size < 0 -> Err("NegativeSize")
          [] range_size > 2 ^ usize_bits - 1 -> Err("Overflow")
          [] OTHER -> Ok(range_size)

\* get_range_size, with value::apply_ord already applied to the bounds; an
\* i128 operation that overflows would panic or wrap, which is the error
\* "arithmetic overflow"
get_range_size(start_bound, end_bound, usize_bits) ==
    LET Ok(size) == [ok |-> TRUE, size |-> size, err |-> ""]
        Err(err) == [ok |-> FALSE, size |-> 0, err |-> err]
        I128_MAX == 2 ^ (2 * NatBits - 1) - 1
        in_i128(v) == (0 - I128_MAX) - 1 <= v /\ v <= I128_MAX
        range_size == (end_bound.v + 1) - start_bound.v
    IN  CASE ~({start_bound.kind, end_bound.kind} \subseteq {"IntValue", "NatValue"}) ->
                 Err("WrongTypes")
          [] ~(in_i128(end_bound.v + 1) /\ in_i128(range_size)) ->
                 Err("arithmetic overflow")
          [] range_size < 0 -> Err("NegativeSize")
          \* range_size.try_into(): usize
          [] range_size > 2 ^ usize_bits - 1 -> Err("Overflow")
          [] OTHER -> Ok(range_size)

\* resolve_type_range from `Check if the start and end bounds form a positive
\* range size`: what it returns is "None" (nothing to replace), "TypeError", or
\* "panics"
resolve_type_range ==
    /\ validator.pc = "resolve_type_range"
    /\ LET range == validator.range
           range_size == get_range_size(range.start[1], range.end[1], range.usize_bits)
           message(kind, text) == <<[kind |-> kind, message |-> text]>>
       IN  validator' =
             [validator EXCEPT
                !.pc = "done",
                !.range =
                   CASE range_size.ok ->
                          [range EXCEPT !.size = <<range_size.size>>, !.returned = "None"]
                     [] range_size.err = "Overflow" ->
                          [range EXCEPT
                             !.size = <<2 ^ range.usize_bits - 1>>,
                             !.returned = "None",
                             !.messages = message("Warning",
                                 "Range bound size exceeds the maximum representable size")]
                     [] range_size.err = "NegativeSize" ->
                          [range EXCEPT
                             !.returned = "TypeError",
                             !.messages = message("Error",
                                 "Range bounds creates a negative-sized range")]
                     [] range_size.err = "WrongTypes" ->
                          [range EXCEPT
                             !.returned = "TypeError",
                             !.messages = message("Error",
                                 "Range bounds must both be integers, charachers, booleans, or elements from the same enumeration")]
                     [] OTHER -> [range EXCEPT !.returned = "panics"]]
    /\ UNCHANGED <<scanVars, cst, parser, types, const_eval>>

\* the bounds: the ends of i64 and u64 and the values next to them and to 0,
\* and a Value that is no integer; the target has pointers of 64 or 32 bits
InitRange ==
    LET I64_MAX == 2 ^ (NatBits - 1) - 1
        Value(kind, v) == [kind |-> kind, v |-> v]
        Values == {Value("IntValue", v) :
                       v \in {(0 - I64_MAX) - 1, 0 - I64_MAX, 0 - 1, 0, 1, 2,
                              I64_MAX - 1, I64_MAX}}
                  \cup {Value("NatValue", v) :
                            v \in {0, 1, 2 ^ (NatBits \div 2) - 1, 2 ^ (NatBits \div 2),
                                   I64_MAX, I64_MAX + 1, U64_MAX - 1, U64_MAX}}
                  \cup {Value("RealValue", 1)}
    IN  /\ \E start_bound \in Values, end_bound \in Values,
              usize_bits \in {NatBits \div 2, NatBits} :
               validator = [NotRunning.validator EXCEPT
                               !.pc = "resolve_type_range",
                               !.range.start = <<start_bound>>,
                               !.range.end = <<end_bound>>,
                               !.range.usize_bits = usize_bits]
        /\ IdleExcept("validator")

SpecRange == InitRange /\ [][resolve_type_range]_vars

\* C7: dealias_ref terminates on every TypeRef over every type table that
\* parsing and validating a unit reaches: the Alias types never form a cycle,
\* also after the type of a forward was replaced by an Alias to the resolving
\* type
C7_AliasesAcyclic ==
    /\ validator.pc # "diverges"
    /\ \A id \in 0..Len(validator.type_table) :
         dealias_ref(TypeRef("Named", "", <<>>, id), validator.type_table,
                     validator.debug_assertions).outcome # "diverges"

\* `type a : forward` was resolved by a `type a : a`, and validated
C7_Witness ==
    /\ validator.pc = "done"
    /\ Len(validator.stmts) = 2
    /\ ~validator.stmts[2].is_new_def
    /\ validator.stmts[2].resolved_type = <<TypeRef("Named", "", <<>>, 1)>>
    /\ validator.type_table[1].kind = "Alias"
    /\ validator.type_table[2].kind = "Reference"
    /\ validator.type_table[2].to = TypeRef("Named", "", <<>>, 0)

(***************************************************************************)
(* Constant evaluation, compiler/toc_analysis/src/const_eval.rs.  The unit *)
(* holds one declaration `const a := e` or `var a := e`; const_eval.exprs  *)
(* is the unit's expression arena, the nodes of e in post order, so the    *)
(* root of e is the last one.  An ExprIdx is an index into exprs, a        *)
(* ConstExpr is its id, a span is a record naming what it covers.          *)
(* A ConstValue is [type, v]: v is the integer, the real (a real of the    *)
(* model is a whole number), or 0/1 for false/true.                        *)
(***************************************************************************)
\* the width of a ConstInt when 64-bit operations are not allowed (32 in the code)
ConstIntBits == 3

\* nodes of the largest expression
MaxExprs == 3

\* calls of eval_expr and eval_var on one context
MaxEvals == 3

\* every expression of exactly n nodes, as an arena in post order
RECURSIVE ExprArenas(_)
ExprArenas(n) ==
    LET Node(kind, lit, v, op, lhs, rhs) ==
            [kind |-> kind, lit |-> lit, v |-> v, op |-> op, lhs |-> lhs, rhs |-> rhs]
        Leaves ==
            {Node("Literal", "Integer", v, "", 0, 0) :
                 v \in {0, 1, 2 ^ ConstIntBits - 1, 2 ^ ConstIntBits}}
            \cup {Node("Literal", "Real", v, "", 0, 0) : v \in {1, 2 ^ (ConstIntBits + 1)}}
            \cup {Node("Literal", "Boolean", v, "", 0, 0) : v \in {0, 1}}
            \cup {Node("Literal", "String", 0, "", 0, 0),
                  Node("Missing", "", 0, "", 0, 0),
                  Node("Name", "a", 0, "", 0, 0)}
        Shift(arena, k) ==
            [i \in 1..Len(arena) |->
                [arena[i] EXCEPT !.lhs = IF @ = 0 THEN 0 ELSE @ + k,
                                 !.rhs = IF @ = 0 THEN 0 ELSE @ + k]]
    IN  IF n = 1
        THEN {<<leaf>> : leaf \in Leaves}
        ELSE {Append(inner, Node("Paren", "", 0, "", 0, n - 1)) :
                  inner \in ExprArenas(n - 1)}
             \cup {Append(inner, Node("Unary", "", 0, op, 0, n - 1)) :
                       inner \in ExprArenas(n - 1), op \in {"Identity", "Negate"}}
             \cup UNION {
                    {(l \o Shift(r, k)) \o <<Node("Binary", "", 0, op, k, n - 1)>> :
                         l \in ExprArenas(k), r \in ExprArenas(n - 1 - k),
                         op \in {"Add", "Sub", "Mul", "Div", "Less", "In"}} :
                    k \in 1..(n - 2)}

\* ConstOp on ConstValues without a limit of width: the value the operation has
\* in mathematics, or the ConstError that says why it has none
ConstOp_exact(op, lhs, rhs) ==
    LET value(type, v) == [type |-> type, v |-> v, kind |-> ""]
        error(kind) == [type |-> "", v |-> 0, kind |-> kind]
        bools == Cardinality({o \in {"lhs", "rhs"} :
                                 (IF o = "lhs" THEN lhs ELSE rhs).type = "Bool"})
        numeric == IF "Real" \in {lhs.type, rhs.type} THEN "Real" ELSE "Integer"
        magnitude(v) == IF v < 0 THEN 0 - v ELSE v
        \* division truncates towards zero
        quotient == (IF (lhs.v < 0) = (rhs.v < 0) THEN 1 ELSE 0 - 1)
                        * (magnitude(lhs.v) \div magnitude(rhs.v))
    IN  CASE op = "Less" ->
                 IF bools = 1 THEN error("WrongType")
                 ELSE value("Bool", IF lhs.v < rhs.v THEN 1 ELSE 0)
          [] bools > 0 -> error("WrongType")
          [] op = "Identity" -> value(rhs.type, rhs.v)
          [] op = "Negate" -> value(rhs.type, 0 - rhs.v)
          [] op = "Add" -> value(numeric, lhs.v + rhs.v)
          [] op = "Sub" -> value(numeric, lhs.v - rhs.v)
          [] op = "Mul" -> value(numeric, lhs.v * rhs.v)
          [] op = "Div" -> IF rhs.v = 0 THEN error("DivByZero")
                           ELSE value(numeric, quotient)

\* whether a ConstValue is one the code can hold: a ConstInt is a magnitude of
\* ConstIntBits bits and a sign, a real is finite (f64_MAX stands for f64::MAX)
ConstValue_fits(value) ==
    LET f64_MAX == 2 ^ (ConstIntBits + 1)
    IN  CASE value.type = "Integer" ->
                 value.v < 2 ^ ConstIntBits /\ 0 - value.v < 2 ^ ConstIntBits
          [] value.type = "Real" -> value.v <= f64_MAX /\ 0 - value.v <= f64_MAX
          [] OTHER -> TRUE

ConstInt_from_unsigned_truncating(v) ==
    <<v % (2 ^ ConstIntBits)>>

\* ConstInt::from_unsigned(v, allow_64bit_ops) with allow_64bit_ops = false:
\* <<v>>, or <<>> for Err(ConstError::IntOverflow)
ConstInt_from_unsigned(v) ==
    IF v < 2 ^ ConstIntBits THEN <<v>> ELSE <<>>

\* the operation leaving its operands on the stack
ConstOp_evaluate_keeps_operands(op, operand_stack) ==
    LET n == Len(operand_stack)
        unary == op \in {"Identity", "Negate"}
        rhs == operand_stack[n]
        lhs == IF unary THEN rhs ELSE operand_stack[n - 1]
        exact == ConstOp_exact(op, lhs, rhs)
        result == [type |-> exact.type, v |-> exact.v]
    IN  [operand_stack |-> operand_stack,
         result |-> result,
         err |-> CASE exact.kind # "" -> exact.kind
                   [] ~ConstValue_fits(result) ->
                          IF result.type = "Integer" THEN "IntOverflow" ELSE "RealOverflow"
                   [] OTHER -> ""]

\* ConstOp::evaluate(&mut operand_stack, allow_64bit_ops): the operands are
\* popped, the last one pushed is the right one; the result is pushed by the caller
ConstOp_evaluate(op, operand_stack) ==
    LET n == Len(operand_stack)
        unary == op \in {"Identity", "Negate"}
        rhs == operand_stack[n]
        lhs == IF unary THEN rhs ELSE operand_stack[n - 1]
        exact == ConstOp_exact(op, lhs, rhs)
        result == [type |-> exact.type, v |-> exact.v]
    IN  [operand_stack |-> SubSeq(operand_stack, 1, IF unary THEN n - 1 ELSE n - 2),
         result |-> result,
         err |-> CASE exact.kind # "" -> exact.kind
                   [] ~ConstValue_fits(result) ->
                          IF result.type = "Integer" THEN "IntOverflow" ELSE "RealOverflow"
                   [] OTHER -> ""]

\* InnerCtx::do_eval_expr: the stack machine.  Returns the context and the
\* outcome "Ok" (with value), "Err" (with err) or "panics" (err.kind says where)
do_eval_expr(C, root_expr, const_expr) ==
    LET outcome(o, value, kind, span) ==
            [outcome |-> o, value |-> value, err |-> [kind |-> kind, span |-> span]]
        no_value == [type |-> "", v |-> 0]
        no_span == [of |-> "", at |-> 0]
        Err(kind, of, idx) == outcome("Err", no_value, kind, [of |-> of, at |-> idx])
        panics(why) == outcome("panics", no_value, why, no_span)
        Expr(e) == [item |-> "Expr", expr |-> e, op |-> ""]
        RECURSIVE loop(_, _)
        loop(eval_stack, operand_stack) ==
            IF eval_stack = <<>>
            THEN CASE operand_stack = <<>> -> panics("expect")
                   [] Len(operand_stack) > 1 -> panics("assert!")
                   [] OTHER -> outcome("Ok", operand_stack[1], "", no_span)
            ELSE LET top == eval_stack[Len(eval_stack)]
                     popped == SubSeq(eval_stack, 1, Len(eval_stack) - 1)
                     local_expr == C.exprs[top.expr]
                     evaluated == ConstOp_evaluate(top.op, operand_stack)
                     from_unsigned == ConstInt_from_unsigned(local_expr.v)
                     push(operand) == loop(popped, Append(operand_stack, operand))
                     Op == [item |-> "Op", expr |-> top.expr, op |-> local_expr.op]
                 IN  CASE top.item = "Op" ->
                              IF evaluated.err # ""
                              THEN Err(evaluated.err, "op", top.expr)
                              ELSE loop(popped, Append(evaluated.operand_stack,
                                                       evaluated.result))
                       [] local_expr.kind = "Missing" ->
                              Err("MissingExpr", "expr", top.expr)
                       [] local_expr.kind = "Literal" ->
                              CASE local_expr.lit = "Integer" ->
                                       IF from_unsigned = <<>>
                                       THEN Err("IntOverflow", "expr", top.expr)
                                       ELSE push([type |-> "Integer",
                                                  v |-> from_unsigned[1]])
                                [] local_expr.lit = "Real" ->
                                       push([type |-> "Real", v |-> local_expr.v])
                                [] local_expr.lit = "Boolean" ->
                                       push([type |-> "Bool", v |-> local_expr.v])
                                [] OTHER -> panics("todo!()")
                       [] local_expr.kind = "Binary" ->
                              \* expr.op.try_into()?
                              IF local_expr.op = "In"
                              THEN Err("NotConstOp", "op", top.expr)
                              ELSE loop(popped \o <<Op, Expr(local_expr.rhs),
                                                    Expr(local_expr.lhs)>>,
                                        operand_stack)
                       [] local_expr.kind = "Unary" ->
                              loop(popped \o <<Op, Expr(local_expr.rhs)>>, operand_stack)
                       [] local_expr.kind = "Paren" ->
                              loop(Append(popped, Expr(local_expr.rhs)), operand_stack)
                       [] local_expr.kind = "Name" -> panics("todo!()")
        evaluating == [state |-> "Evaluating", root |-> root_expr,
                       value |-> no_value, err |-> [kind |-> "", span |-> no_span]]
        result == loop(<<Expr(root_expr)>>, <<>>)
    IN  [C |-> [C EXCEPT !.eval_state[const_expr + 1] =
                    IF result.outcome = "Ok"
                    THEN [evaluating EXCEPT !.state = "Value", !.value = result.value]
                    ELSE evaluating],
         result |-> result]

eval_expr_errors_not_cached(C, const_expr) ==
    LET state == C.eval_state[const_expr + 1]
        cycle == [kind |-> "EvalCycle", span |-> [of |-> "expr", at |-> state.root]]
        evaluated == do_eval_expr(C, state.root, const_expr)
    IN  CASE state.state = "Value" ->
                 [C |-> C,
                  result |-> [outcome |-> "Ok", value |-> state.value, err |-> state.err]]
          [] state.state \in {"Evaluating", "Error"} ->
                 [C |-> [C EXCEPT !.eval_state[const_expr + 1].state = "Error",
                                  !.eval_state[const_expr + 1].err = cycle],
                  result |-> [outcome |-> "Err", value |-> state.value, err |-> cycle]]
          [] state.state = "Unevaluated" ->
                 IF evaluated.result.outcome = "Err"
                 THEN [evaluated EXCEPT !.C.eval_state[const_expr + 1].state = "Error",
                                        !.C.eval_state[const_expr + 1].err = evaluated.result.err]
                 ELSE evaluated

\* the error returned without being stored in the handle
eval_expr_error_not_stored(C, const_expr) ==
    LET state == C.eval_state[const_expr + 1]
        cycle == [kind |-> "EvalCycle", span |-> [of |-> "expr", at |-> state.root]]
    IN  CASE state.state = "Value" ->
                 [C |-> C,
                  result |-> [outcome |-> "Ok", value |-> state.value, err |-> state.err]]
          [] state.state = "Error" ->
                 [C |-> C,
                  result |-> [outcome |-> "Err", value |-> state.value, err |-> state.err]]
          [] state.state = "Evaluating" ->
                 [C |-> [C EXCEPT !.eval_state[const_expr + 1].state = "Error",
                                  !.eval_state[const_expr + 1].err = cycle],
                  result |-> [outcome |-> "Err", value |-> state.value, err |-> cycle]]
          [] state.state = "Unevaluated" -> do_eval_expr(C, state.root, const_expr)

\* InnerCtx::eval_expr
eval_expr(C, const_expr) ==
    LET state == C.eval_state[const_expr + 1]
        cycle == [kind |-> "EvalCycle", span |-> [of |-> "expr", at |-> state.root]]
        evaluated == do_eval_expr(C, state.root, const_expr)
    IN  CASE state.state = "Value" ->
                 [C |-> C,
                  result |-> [outcome |-> "Ok", value |-> state.value, err |-> state.err]]
          [] state.state = "Error" ->
                 [C |-> C,
                  result |-> [outcome |-> "Err", value |-> state.value, err |-> state.err]]
          [] state.state = "Evaluating" ->
                 [C |-> [C EXCEPT !.eval_state[const_expr + 1].state = "Error",
                                  !.eval_state[const_expr + 1].err = cycle],
                  result |-> [outcome |-> "Err", value |-> state.value, err |-> cycle]]
          [] state.state = "Unevaluated" ->
                 IF evaluated.result.outcome = "Err"
                 THEN [evaluated EXCEPT !.C.eval_state[const_expr + 1].state = "Error",
                                        !.C.eval_state[const_expr + 1].err = evaluated.result.err]
                 ELSE evaluated

\* InnerCtx::eval_var
eval_var(C, var) ==
    LET found == {i \in 1..Len(C.var_to_expr) : C.var_to_expr[i].def_id = var}
    IN  IF found = {}
        THEN [C |-> C,
              result |-> [outcome |-> "Err", value |-> [type |-> "", v |-> 0],
                          err |-> [kind |-> "NoConstExpr",
                                   span |-> [of |-> "def", at |-> 1]]]]
        ELSE eval_expr(C, C.var_to_expr[CHOOSE i \in found : TRUE].const_expr)

\* collect_const_vars: Visitor::visit_constvar on the unit's one declaration,
\* ConstEvalCtx::defer_expr and add_var included
collect_const_vars ==
    /\ const_eval.pc = "lowered"
    /\ const_eval' =
           IF const_eval.is_const
           THEN [const_eval EXCEPT
                    !.eval_state = Append(@, [state |-> "Unevaluated",
                                              root |-> Len(const_eval.exprs),
                                              value |-> [type |-> "", v |-> 0],
                                              err |-> [kind |-> "",
                                                       span |-> [of |-> "", at |-> 0]]]),
                    !.var_to_expr = Append(@, [def_id |-> "a", const_expr |-> Len(@)]),
                    !.pc = "collected"]
           ELSE [const_eval EXCEPT !.pc = "collected"]
    /\ UNCHANGED <<scanVars, cst, parser, types, validator>>

\* what a call leaves in const_eval: a panic happens while the RwLock is held
\* for writing, which poisons it, so that every later call panics at unwrap()
ConstEvalCtx_call(call, returning) ==
    /\ const_eval.pc \in {"collected", "returned"}
    /\ Len(const_eval.calls) < MaxEvals
    /\ const_eval' = [returning.C EXCEPT
                         !.calls = Append(@, call),
                         !.returned = <<returning.result>>,
                         !.pc = IF returning.result.outcome = "panics"
                                THEN "poisoned" ELSE "returned"]
    /\ UNCHANGED <<scanVars, cst, parser, types, validator>>

\* ConstError::report_to, called by whoever asked for the value, on the error
\* it was given
report_to ==
    /\ const_eval.pc = "returned"
    /\ const_eval.returned[1].outcome = "Err"
    /\ const_eval' =
           [const_eval EXCEPT
               !.pc = "collected",
               !.messages =
                   IF const_eval.returned[1].err.kind \in {"Reported", "MissingExpr"}
                   THEN @
                   ELSE Append(@, const_eval.returned[1].err)]
    /\ UNCHANGED <<scanVars, cst, parser, types, validator>>

InitConstEval ==
    /\ \E n \in 1..MaxExprs, is_const \in BOOLEAN :
         \E exprs \in ExprArenas(n) :
            const_eval = [NotRunning.const_eval EXCEPT
                             !.exprs = exprs, !.is_const = is_const, !.pc = "lowered"]
    /\ IdleExcept("const_eval")

NextConstEval ==
    \/ collect_const_vars
    \* ConstEvalCtx::eval_expr
    \/ \E const_expr \in 0..(Len(const_eval.eval_state) - 1) :
          ConstEvalCtx_call("eval_expr", eval_expr(const_eval, const_expr))
    \* ConstEvalCtx::eval_var
    \/ \E var \in {"a"} :
          ConstEvalCtx_call("eval_var", eval_var(const_eval, var))
    \/ report_to

SpecConstEval == InitConstEval /\ [][NextConstEval]_vars

(***************************************************************************)
(* One ConstEvalCtx shared by threads.  const_eval.lock is the RwLock of   *)
(* `inner`: writer is the thread that holds the write guard (0: none), and *)
(* poisoned is set when a thread panics holding it.  A thread of           *)
(* const_eval.threads is [pc, call, arg, evaluating, seen, calls]: seen is *)
(* the eval_state it found when its call got the guard.  A call is two     *)
(* steps, from write() to the first statement of do_eval_expr and from     *)
(* there to the drop of the guard, so that another thread can run between. *)
(***************************************************************************)
\* threads sharing the context
MaxThreads == 2

\* calls of one thread
MaxCalls == 2

\* handles deferred on the shared context
MaxHandles == 2

\* a lock that any number of threads may hold
RwLock_write_shared(lock, thread) ==
    IF lock.poisoned THEN "poisoned" ELSE "acquired"

\* self.inner.write(): "blocked" while another thread holds the lock, Err
\* ("poisoned") once a writer has panicked
RwLock_write(lock, thread) ==
    CASE lock.writer # 0 -> "blocked"
      [] lock.poisoned -> "poisoned"
      [] OTHER -> "acquired"

\* a public operation from `self.inner.write().unwrap()` to where the inner
\* operation has read the handle's state and do_eval_expr has set Evaluating
ConstEvalCtx_enter(thread, call, arg) ==
    LET self == const_eval.threads[thread]
        guard == RwLock_write(const_eval.lock, thread)
        found == {i \in 1..Len(const_eval.var_to_expr) :
                      const_eval.var_to_expr[i].def_id = "a"}
        handle == CASE call = "eval_expr" -> {arg}
                    [] call = "eval_var" ->
                         {const_eval.var_to_expr[i].const_expr : i \in found}
                    [] OTHER -> {}
        unevaluated == {h \in handle : const_eval.eval_state[h + 1].state = "Unevaluated"}
    IN  /\ const_eval.pc = "threads"
        /\ self.pc = "idle"
        /\ self.calls < MaxCalls
        /\ guard # "blocked"
        /\ call = "defer_expr" => Len(const_eval.eval_state) < MaxHandles
        /\ const_eval' =
              IF guard = "poisoned"
              THEN [const_eval EXCEPT !.threads[thread].pc = "panicked"]
              ELSE [const_eval EXCEPT
                       !.lock.writer = thread,
                       !.threads[thread] =
                           [self EXCEPT !.pc = "inner", !.call = call, !.arg = arg,
                                        !.evaluating = unevaluated,
                                        !.seen = const_eval.eval_state],
                       !.eval_state =
                           [h \in 1..Len(@) |->
                               IF h - 1 \in unevaluated
                               THEN [@[h] EXCEPT !.state = "Evaluating"]
                               ELSE @[h]]]
        /\ UNCHANGED <<scanVars, cst, parser, types, validator>>

\* the rest of the operation, to the drop of the guard: by return, or by a
\* panic, which poisons the lock
ConstEvalCtx_leave(thread) ==
    LET self == const_eval.threads[thread]
        \* the context as the operation found it
        C == [const_eval EXCEPT
                 !.eval_state =
                     [h \in 1..Len(@) |->
                         IF h - 1 \in self.evaluating
                         THEN [@[h] EXCEPT !.state = "Unevaluated"]
                         ELSE @[h]]]
        Unevaluated == [state |-> "Unevaluated", root |-> Len(C.exprs),
                        value |-> [type |-> "", v |-> 0],
                        err |-> [kind |-> "", span |-> [of |-> "", at |-> 0]]]
        returns(D) == [C |-> D, result |-> [outcome |-> "Ok"]]
        inner ==
            CASE self.call = "defer_expr" ->
                     returns([C EXCEPT !.eval_state = Append(@, Unevaluated)])
              [] self.call = "add_var" ->
                     \* IndexMap::insert
                     returns([C EXCEPT
                                !.var_to_expr =
                                    IF \E i \in 1..Len(@) : @[i].def_id = "a"
                                    THEN [i \in 1..Len(@) |->
                                             IF @[i].def_id = "a"
                                             THEN [@[i] EXCEPT !.const_expr = self.arg]
                                             ELSE @[i]]
                                    ELSE Append(@, [def_id |-> "a",
                                                    const_expr |-> self.arg])])
              [] self.call = "eval_expr" -> eval_expr(C, self.arg)
              [] self.call = "eval_var" -> eval_var(C, "a")
        panicked == inner.result.outcome = "panics"
    IN  /\ const_eval.pc = "threads"
        /\ self.pc = "inner"
        /\ const_eval' =
              [inner.C EXCEPT
                  !.lock = [writer |-> 0, poisoned |-> @.poisoned \/ panicked],
                  !.threads[thread].pc = IF panicked THEN "panicked" ELSE "idle",
                  !.threads[thread].calls = @ + 1]
        /\ UNCHANGED <<scanVars, cst, parser, types, validator>>

InitThreads ==
    /\ \E n \in 1..(MaxExprs - 1) :
         \E exprs \in ExprArenas(n) :
            const_eval =
                [NotRunning.const_eval EXCEPT
                    !.exprs = exprs, !.is_const = TRUE, !.pc = "threads",
                    !.threads = [thread \in 1..MaxThreads |->
                                    [pc |-> "idle", call |-> "", arg |-> 0,
                                     evaluating |-> {}, seen |-> <<>>, calls |-> 0]]]
    /\ IdleExcept("const_eval")

SpecThreads ==
    /\ InitThreads
    /\ [][\E thread \in 1..MaxThreads :
             \/ \E call \in {"defer_expr", "eval_var"} :
                   ConstEvalCtx_enter(thread, call, 0)
             \/ \E call \in {"add_var", "eval_expr"} :
                   \E arg \in 0..(Len(const_eval.eval_state) - 1) :
                       ConstEvalCtx_enter(thread, call, arg)
             \/ ConstEvalCtx_leave(thread)]_vars

\* the value an expression has in mathematics, [type, v, kind]: kind is "" when
\* it has one, and says why not otherwise
RECURSIVE MathValue(_, _)
MathValue(exprs, e) ==
    LET node == exprs[e]
        lhs == MathValue(exprs, node.lhs)
        rhs == MathValue(exprs, node.rhs)
        none == [type |-> "", v |-> 0, kind |-> "none"]
    IN  CASE node.kind = "Literal" /\ node.lit \in {"Integer", "Real"} ->
                 [type |-> node.lit, v |-> node.v, kind |-> ""]
          [] node.kind = "Literal" /\ node.lit = "Boolean" ->
                 [type |-> "Bool", v |-> node.v, kind |-> ""]
          [] node.kind = "Paren" -> rhs
          [] node.kind = "Unary" ->
                 IF rhs.kind # "" THEN none ELSE ConstOp_exact(node.op, rhs, rhs)
          [] node.kind = "Binary" /\ node.op # "In" ->
                 IF lhs.kind # "" \/ rhs.kind # "" THEN none
                 ELSE ConstOp_exact(node.op, lhs, rhs)
          [] OTHER -> none

C12_SelfReferenceIsEvalCycle ==
    LET exprs == const_eval.exprs
        cycle == [kind |-> "EvalCycle", span |-> [of |-> "expr", at |-> 3]]
    IN  (/\ const_eval.is_const
         /\ const_eval.calls = <<"eval_var">>
         /\ Len(exprs) = 3
         /\ exprs[1].kind = "Name"
         /\ exprs[2].kind = "Literal" /\ exprs[2].lit = "Integer" /\ exprs[2].v = 1
         /\ exprs[3].kind = "Binary" /\ exprs[3].op = "Add")
        => /\ const_eval.returned[1].outcome = "Err"
           /\ const_eval.returned[1].err = cycle
           /\ const_eval.eval_state[1].state = "Error"
           /\ const_eval.eval_state[1].err = cycle

\* C13: a call of eval_expr or eval_var on a handle whose state is Value or
\* Error returns the stored value or error and changes no handle's state.
C13_CachedResult ==
    [][(/\ const_eval.eval_state # <<>>
        /\ const_eval.eval_state[1].state \in {"Value", "Error"}
        /\ Len(const_eval'.calls) > Len(const_eval.calls))
       => /\ const_eval'.eval_state = const_eval.eval_state
          /\ const_eval'.returned[1] =
                 [outcome |-> IF const_eval.eval_state[1].state = "Value"
                              THEN "Ok" ELSE "Err",
                  value |-> const_eval.eval_state[1].value,
                  err |-> const_eval.eval_state[1].err]]_vars

\* a division by zero was evaluated once and then asked for twice more
C13_Witness ==
    /\ Len(const_eval.calls) = 3
    /\ const_eval.eval_state # <<>>
    /\ const_eval.eval_state[1].state = "Error"
    /\ const_eval.returned[1].err.kind = "DivByZero"

\* C14: whatever number of evaluations of a handle that failed are reported,
\* the handle is marked Error and at most one message is produced.
C14_OneMessagePerHandle ==
    const_eval.is_const
        => /\ Len(const_eval.messages) <= 1
           /\ const_eval.messages # <<>> => const_eval.eval_state[1].state = "Error"

\* C15: the validator run a second time over the validated unit changes no
\* entry of the type table and no identifier of a statement, and every
\* statement is visited as it was the first time.
C15_ValidationIdempotent ==
    [][(validator.pc = "validate" /\ validator.runs = 2)
       => /\ validator'.type_table = validator.type_table
          /\ validator'.stmts = validator.stmts
          /\ validator'.pc \in {"validate", "done"}]_vars

C17_ScanNeverPanics ==
    scan_pc # "panic"

\* an unterminated string that ends in an invalid escape of a 2-byte char was
\* scanned to the end, and reported
C17_Witness ==
    /\ scan_pc = "done"
    /\ source = <<"\"", "\\", "U+00A7">>
    /\ Len(tokens) = 2
    /\ tokens[1].token_type = "StringLiteral"
    /\ tokens[1].text = <<"U+00A7">>
    /\ Len(reporter.messages) = 2

\* C18: the token list never holds a Not or Tilde token directly followed by
\* an In or Equ token; when an In or Equ token is scanned right after a Not or
\* Tilde token, whatever whitespace and comments lie between them, the two
\* become one NotIn or NotEqu token whose span runs from the start of the first
\* to the end of the second.
C18_NotStitched ==
    /\ [](\A i \in 1..(Len(tokens) - 1) :
             ~(/\ tokens[i].token_type \in {"Not", "Tilde"}
               /\ tokens[i + 1].token_type \in {"In", "Equ"}))
    /\ [][LET n == Len(tokens)
              second == scan_token([ScannerState EXCEPT !.cursor = step(@)]).token
          IN  (/\ scan_iters' = scan_iters + 1
               /\ n > 0
               /\ tokens[n].token_type \in {"Not", "Tilde"}
               /\ second.token_type \in {"In", "Equ"})
              => /\ Len(tokens') = n
                 /\ SubSeq(tokens', 1, n - 1) = SubSeq(tokens, 1, n - 1)
                 /\ tokens'[n].token_type =
                        (IF second.token_type = "In" THEN "NotIn" ELSE "NotEqu")
                 /\ tokens'[n].location.start = tokens[n].location.start
                 /\ tokens'[n].location.end = second.location.end
                 /\ tokens'[n].location.end = cursor'.end]_vars

\* `~`, a line comment, and `=` on the next line: one NotEqu over all of it
C18_Witness ==
    /\ scan_pc = "done"
    /\ source = <<"~", "%", "LF", "=">>
    /\ Len(tokens) = 2
    /\ tokens[1].token_type = "NotEqu"
    /\ tokens[1].location.start = 0
    /\ tokens[1].location.end = 4
    /\ tokens[2].token_type = "Eof"

\* C19: when the token that scan_token is about to scan is a malformed integer
\* literal (decimal digits whose value is beyond u64; or digits, `#` and
\* alphanumerics where the base is outside 2..36, or there are no alphanumerics,
\* or one of them is no digit of the base, or the value is beyond u64), exactly
\* one token is added, a NatLiteral of value 0 that covers the literal, at least
\* one error is reported, and the scanner goes on with the char after the
\* literal.
C19_MalformedIntIsZero ==
    [][LET S1 == skip_whitespace([ScannerState EXCEPT !.cursor = step(@)])
           n == Len(tokens)
           \* the index in source of the first char of the token
           first == CHOOSE k \in 0..Len(source) : byte_offset(source, k) = S1.cursor.end
           Alphanumerics == CharClass.DecDigits \cup CharClass.LowerLetters
                                \cup CharClass.UpperLetters
           RECURSIVE run(_, _)
           run(i, set) == IF i <= Len(source) /\ source[i] \in set
                          THEN 1 + run(i + 1, set) ELSE 0
           \* the value of the numerals, or U64_MAX + 1 when it is beyond u64
           RECURSIVE val(_, _)
           val(s, base) ==
               IF s = <<>> THEN 0
               ELSE LET more == val(SubSeq(s, 1, Len(s) - 1), base) * base
                                    + digit_val(s[Len(s)])
                    IN  IF more > U64_MAX THEN U64_MAX + 1 ELSE more
           base_len == run(first, CharClass.DecDigits)
           base_numerals == SubSeq(source, first, first + base_len - 1)
           after == IF first + base_len <= Len(source)
                    THEN source[first + base_len] ELSE "NUL"
           radix_len == run(first + base_len + 1, Alphanumerics)
           radix_numerals == SubSeq(source, first + base_len + 1,
                                    first + base_len + radix_len)
           base == val(base_numerals, 10)
           decimal_malformed ==
               /\ after \notin {".", "e", "E", "#"}
               /\ base > U64_MAX
           based_malformed ==
               /\ after = "#"
               /\ \/ base < 2
                  \/ base > 36
                  \/ radix_len = 0
                  \/ \E i \in 1..radix_len : digit_val(radix_numerals[i]) >= base
                  \/ val(radix_numerals, base) > U64_MAX
           literal_len == IF after = "#" THEN base_len + 1 + radix_len ELSE base_len
           literal_end == byte_offset(source, first - 1 + literal_len)
       IN  (/\ scan_pc = "loop"
            /\ ~is_at_end(ScannerState)
            /\ first > 0
            /\ S1.current \in CharClass.DecDigits
            /\ decimal_malformed \/ based_malformed)
           => /\ scan_pc' = "loop"
              /\ scan_iters' = scan_iters + 1
              /\ Len(tokens') = n + 1
              /\ SubSeq(tokens', 1, n) = tokens
              /\ tokens'[n + 1].token_type = "NatLiteral"
              /\ tokens'[n + 1].value = 0
              /\ tokens'[n + 1].location.start = byte_offset(source, first - 1)
              /\ tokens'[n + 1].location.end = literal_end
              /\ Len(reporter'.messages) > Len(S1.reporter.messages)
              /\ reporter'.has_error
              /\ cursor'.end = literal_end
              /\ peek' = (IF first + literal_len <= Len(source)
                          THEN source[first + literal_len] ELSE "NUL")]_vars

\* `36#zz` is beyond u64, and the `=` after it is scanned
C19_Witness ==
    /\ scan_pc = "done"
    /\ source = <<"3", "6", "#", "z", "z", "=">>
    /\ Len(tokens) = 3
    /\ tokens[1].token_type = "NatLiteral"
    /\ tokens[1].value = 0
    /\ tokens[1].location.end = 5
    /\ tokens[2].token_type = "Equ"
    /\ Len(reporter.messages) = 1
    /\ reporter.messages[1].message = "Integer literal is too large"

\* C20: when the token that scan_token is about to scan starts, outside
\* literals and comments, with a char that starts no token, one error is
\* reported at that char, exactly one token is added, an Error token of width 1
\* that covers the char, the tokens before it are left as they are, and the
\* scanner goes on with the char after it.
C20_UnrecognizedChar ==
    [][LET S1 == skip_whitespace([ScannerState EXCEPT !.cursor = step(@)])
           n == Len(tokens)
           chr == S1.current
           recognized ==
               \/ chr \in {"NUL", "(", ")", "@", "^", ",", "#", "+", ";", "~", "&", "|",
                           "/", "-", "=", ":", ">", "<", ".", "*", "\"", "'"}
               \/ chr \in CharClass.DecDigits
               \/ is_ident_char(chr)
       IN  (/\ scan_pc = "loop"
            /\ ~is_at_end(ScannerState)
            /\ ~recognized)
           => /\ scan_pc' = "loop"
              /\ scan_iters' = scan_iters + 1
              /\ Len(tokens') = n + 1
              /\ SubSeq(tokens', 1, n) = tokens
              /\ tokens'[n + 1].token_type = "Error"
              /\ tokens'[n + 1].location.width = 1
              /\ tokens'[n + 1].location.end = S1.cursor.end
              /\ tokens'[n + 1].location.start = S1.cursor.end - len_utf8(chr)
              /\ reporter'.has_error
              /\ Len(reporter'.messages) = Len(S1.reporter.messages) + 1
              /\ reporter'.messages[Len(reporter'.messages)].kind = "Error"
              /\ reporter'.messages[Len(reporter'.messages)].at.start
                     = S1.cursor.end - len_utf8(chr)
              /\ reporter'.messages[Len(reporter'.messages)].at.end = S1.cursor.end
              /\ cursor'.end = S1.cursor.end
              /\ peek' = S1.peek
              /\ chars' = S1.chars
              /\ next_indicies' = S1.next_indicies]_vars

\* `a§a`: the identifiers on both sides of the Error token are scanned
C20_Witness ==
    /\ scan_pc = "done"
    /\ source = <<"a", "U+00A7", "a">>
    /\ Len(tokens) = 4
    /\ tokens[1].token_type = "Identifier"
    /\ tokens[2].token_type = "Error"
    /\ tokens[2].location.start = 1
    /\ tokens[2].location.end = 3
    /\ tokens[2].location.width = 1
    /\ tokens[3].token_type = "Identifier"
    /\ tokens[3].location.start = 3
    /\ Len(reporter.messages) = 1

\* C21: of the binary operators only `**` is right-associative: `1 ** 2 ** 3`
\* parses as 1 ** (2 ** 3), and for every other binary operator `1 op 2 op 3`
\* parses as (1 op 2) op 3.
C21_ExponentRightAssociative ==
    LET operand(i) == <<"Literal", parser.tokens[2 * i + 1]>>
        op == parser.tokens[4]
        assigned == parser.expr[4]
    IN  (/\ parser.pc = "done"
         /\ Len(parser.tokens) = 8
         /\ parser.tokens[2].token_type = "Assign"
         /\ parser.tokens[3].value = 1
         /\ parser.tokens[5].value = 2
         /\ parser.tokens[7].value = 3
         /\ parser.tokens[6] = op)
        => /\ parser.ok
           /\ parser.expr[1] = "Assign"
           /\ assigned =
                  IF op.token_type = "Exp"
                  THEN <<"BinaryOp", operand(1), op, <<"BinaryOp", operand(2), op, operand(3)>>>>
                  ELSE <<"BinaryOp", <<"BinaryOp", operand(1), op, operand(2)>>, op, operand(3)>>

\* C22: for a range whose bounds are integers known at compile time, the size
\* recorded is ord(end) - ord(start) + 1 when that lies in 0..usize::MAX, with
\* no message; when it is more than usize::MAX the size recorded is usize::MAX,
\* with one warning and no error; and for no pair of i64 or u64 bounds does the
\* arithmetic overflow.
C22_RangeSize ==
    LET range == validator.range
        exact == (range.end[1].v - range.start[1].v) + 1
        usize_MAX == 2 ^ range.usize_bits - 1
    IN  (/\ validator.pc = "done"
         /\ range.start # <<>>
         /\ {range.start[1].kind, range.end[1].kind} \subseteq {"IntValue", "NatValue"})
        => /\ range.returned # "panics"
           /\ (0 <= exact /\ exact <= usize_MAX)
                => /\ range.size = <<exact>>
                   /\ range.messages = <<>>
                   /\ range.returned = "None"
           /\ exact > usize_MAX
                => /\ range.size = <<usize_MAX>>
                   /\ Len(range.messages) = 1
                   /\ range.messages[1].kind = "Warning"
                   /\ range.returned = "None"

\* the range 0 .. u64::MAX, of one element more than usize::MAX, on a 64-bit
\* target
C22_Witness ==
    /\ validator.pc = "done"
    /\ validator.range.usize_bits = NatBits
    /\ validator.range.start = <<[kind |-> "NatValue", v |-> 0]>>
    /\ validator.range.end = <<[kind |-> "NatValue", v |-> U64_MAX]>>
    /\ validator.range.size = <<U64_MAX>>
    /\ validator.range.messages # <<>>

\* C23: the Location of every token the scanner has made and of every message
\* it has reported has start <= end, line >= 1 and column >= 1.
C23_LocationInvariant ==
    LET valid(location) ==
            /\ location.start <= location.end
            /\ location.line >= 1
            /\ location.column >= 1
    IN  /\ \A i \in 1..Len(tokens) : valid(tokens[i].location)
        /\ \A i \in 1..Len(reporter.messages) : valid(reporter.messages[i].at)

\* a literal with an invalid escape: the message has a location that was moved
\* back by one byte, and the literal's token and Eof have theirs
C23_Witness ==
    /\ scan_pc = "done"
    /\ Len(tokens) >= 2
    /\ \E i \in 1..Len(reporter.messages) :
          /\ reporter.messages[i].at.start > 0
          /\ reporter.messages[i].message \in {"Invalid escape sequence character",
                                              "Unknown caret notation sequence"}

\* C24: the evaluation of a handle never ends with an operand stack that is
\* empty or holds more than one value (the only panics are the todo!() of the
\* literals and names not yet handled), and when it returns a value, that is
\* the one value of the whole expression and the handle's state is Value of it.
C24_SingleOperandIsResult ==
    LET exprs == const_eval.exprs
        returned == const_eval.returned[1]
        math == MathValue(exprs, Len(exprs))
    IN  (const_eval.is_const /\ const_eval.calls # <<>>)
        => /\ returned.outcome = "panics" => returned.err.kind = "todo!()"
           /\ returned.outcome = "Ok"
                => /\ const_eval.eval_state[1].state = "Value"
                   /\ const_eval.eval_state[1].value = returned.value
                   /\ returned.value = [type |-> math.type, v |-> math.v]

\* `1 - (-1)`: two operations, and three values pushed on the operand stack
C24_Witness ==
    /\ const_eval.pc = "returned"
    /\ const_eval.calls = <<"eval_expr">>
    /\ Len(const_eval.exprs) = 3
    /\ const_eval.exprs[3].kind = "Binary"
    /\ const_eval.exprs[3].op = "Sub"
    /\ const_eval.exprs[1].lit = "Integer"
    /\ const_eval.exprs[2].lit = "Integer"
    /\ const_eval.returned[1].outcome = "Ok"
    /\ const_eval.eval_state[1].state = "Value"

\* C26: whenever a call of the context has returned (with a value or with an
\* error), every handle is Unevaluated, Value or Error: none is Evaluating.
C26_NoHandleLeftEvaluating ==
    const_eval.pc \in {"collected", "returned"}
        => \A i \in 1..Len(const_eval.eval_state) :
               const_eval.eval_state[i].state \in {"Unevaluated", "Value", "Error"}

\* `1 in 1`: do_eval_expr left at the `?` of expr.op.try_into(), after it had
\* set the handle to Evaluating
C26_Witness ==
    /\ const_eval.pc = "returned"
    /\ const_eval.calls = <<"eval_var">>
    /\ const_eval.returned[1].outcome = "Err"
    /\ const_eval.returned[1].err.kind = "NotConstOp"
    /\ const_eval.eval_state[1].state = "Error"

\* C25: at any time at most one thread is inside a public operation of the
\* context, and that is the thread holding the lock; and no operation ever
\* finds, when it gets to the context's state, a handle that is Evaluating.
C25_ExclusiveAccess ==
    LET threads == const_eval.threads
        inside == {thread \in 1..Len(threads) : threads[thread].pc = "inner"}
    IN  /\ Cardinality(inside) <= 1
        /\ \A thread \in inside : const_eval.lock.writer = thread
        /\ \A thread \in 1..Len(threads) :
              \A h \in 1..Len(threads[thread].seen) :
                  threads[thread].seen[h].state # "Evaluating"

\* a thread is in the middle of an evaluation, its handle Evaluating, while
\* another thread, which has made a call before, has calls left to make
C25_Witness ==
    \E thread, other \in 1..Len(const_eval.threads) :
        /\ thread # other
        /\ const_eval.threads[thread].pc = "inner"
        /\ const_eval.threads[thread].evaluating # {}
        /\ \E h \in 1..Len(const_eval.eval_state) :
              const_eval.eval_state[h].state = "Evaluating"
        /\ const_eval.threads[other].pc = "idle"
        /\ const_eval.threads[other].calls = 1

\* C27: has_error() is false on a new StatusReporter, becomes true with a call
\* of report_error (the step that adds an Error message) and is left as it is
\* by every other step: report_warning and take_messages never change it.
C27_HasErrorIffReportedError ==
    /\ ~has_error(reporter)
    /\ [][LET n == Len(reporter.messages)
              error_reported == /\ Len(reporter'.messages) = n + 1
                                /\ reporter'.messages[n + 1].kind = "Error"
          IN  has_error(reporter') = (has_error(reporter) \/ error_reported)]_vars

\* an error was reported, then the messages were taken, then a warning was
\* reported: the only message held is a warning and has_error() is true
C27_Witness ==
    /\ has_error(reporter)
    /\ Len(reporter.messages) = 1
    /\ reporter.messages[1].kind = "Warning"

\* C28: is_assignable_to returns false whenever its lvalue or its rvalue is
\* TypeError.
C28_TypeErrorNeverAssignable ==
    (/\ types.pc = "is_assignable_to"
     /\ is_error(types.args[1]) \/ is_error(types.args[2]))
        => types.returned[1] = Returns(FALSE)

\* C29: for de-aliased type refs A and B (of a Named one the type is in the
\* table and is neither an alias nor a reference), is_equivalent_to(A, B)
\* returns exactly when is_equivalent_to(B, A) returns, and returns the same.
C29_EquivalentSymmetric ==
    LET dealiased(type_ref) ==
            type_ref.kind = "Named"
                => /\ type_ref.id < Len(types.type_table)
                   /\ types.type_table[type_ref.id + 1].kind \notin {"Alias", "Reference"}
    IN  (/\ types.pc = "is_equivalent_to"
         /\ dealiased(types.args[1])
         /\ dealiased(types.args[2]))
        => types.returned[1] = types.returned[2]

\* C30: get_int_kind(v) is Int exactly when i32::MIN <= v <= i32::MAX, and
\* LongInt for every other i64.
C30_IntKind ==
    LET v == types.args[1]
        i32_MIN == 0 - 2 ^ (NatBits \div 2 - 1)
        i32_MAX == 2 ^ (NatBits \div 2 - 1) - 1
    IN  types.pc = "get_int_kind"
        => types.returned[1] = IF i32_MIN <= v /\ v <= i32_MAX THEN "Int" ELSE "LongInt"
====
